---- MODULE Spec2Model ----
(***************************************************************************)
(* Model of the pipeline orchestrator of backend/pipeline.py together     *)
(* with the stop and force-stop endpoints of backend/main.py.              *)
(*                                                                         *)
(* One run (one entry of ProcessingPipeline.active_processes) is modelled. *)
(* The orchestrator coroutine (start_pipeline / run_pipeline_steps and the *)
(* stage functions) is a process whose position is pc; every suspension    *)
(* point of the coroutine (an await that can yield to the event loop) ends *)
(* an action.  Item tasks (process_item / verify_email) are created all at *)
(* once on stage entry, exactly as the stage functions do, and then run    *)
(* concurrently with the orchestrator under the stage semaphore.           *)
(*                                                                         *)
(* Targets are the database records main.py loads for an upload: every     *)
(* target has a website and one primary address of its own, so the set of  *)
(* distinct addresses of the verify stage is indexed like the targets.     *)
(***************************************************************************)
EXTENDS Integers, Sequences, FiniteSets, TLC

\* Number of targets handed to start_pipeline.
NItems == 3

\* Sizes of the source, scaled down so that a run of NItems targets spans
\* several batches and chunks in every stage.  The source values are 25 (chunk
\* of every stage), 25 / 20 / 30 (batch of blog / scrape / verify) and
\* 15 / 12 / 25 (workers); the scaled values keep batch = chunk for blog,
\* batch < chunk for scrape, workers = chunk < batch for verify, and
\* workers <= batch < targets throughout.
blog_chunk_size == 2
scrape_chunk_size == 2
verify_chunk_size == 1
blog_batch_size == 2
scrape_batch_size == 1
verify_batch_size == 2
blog_concurrency == 2
scrape_concurrency == 1
verification_semaphore_limit == 1

Items == 1..NItems

StepNames == {"blog_check", "email_scrape", "email_verify"}

\* Stage lists a caller may pass to start_pipeline (one holds a duplicate).
StepLists ==
    { <<"blog_check", "email_scrape">>,
      <<"email_verify", "email_verify">> }

\* Longest stage list a caller passes when the ordering of stages is examined.
MaxSteps == 3

\* Every stage list of at most MaxSteps recognised stages, duplicates included.
AllStepLists == UNION { [1..n -> StepNames] : n \in 0..MaxSteps }

Statuses ==
    {"none", "running", "completed", "failed", "timeout", "stopped", "force_stopped"}

VARIABLES
    status,            \* active_processes[pid]['status']; "none": no entry yet
    steps,             \* the deduplicated stage list of the run
    step_index,        \* loop variable of run_pipeline_steps (1-based)
    current_step,      \* active_processes[pid]['current_step']
    pc,                \* position of the orchestrator coroutine
    current_data,      \* current_data of run_pipeline_steps (sequence of targets)
    task,              \* state of each item task of the stage being run
    item,              \* the mutable dict of each target
    smtp_in_flight,    \* addresses whose verification worker thread is executing
    batch_start,       \* position in the task list of the batch being gathered
    todo,              \* results of the gathered batch not yet looped over
    all_results,       \* all_results / results of the stage function
    results_chunk,     \* results_chunk of the stage function
    verified_results,  \* verified_results of _run_email_verify
    results,           \* active_processes[pid]['results']
    persisted,         \* datastore: <<stage, target>> committed by _persist_chunk
    data_json,         \* datastore: DataUpload.data_json
    processed_items,   \* active_processes[pid]['processed_items']
    pool_set,          \* which stage semaphores of the manager are not None
    events,            \* progress events sent and batch-timeout lines logged
    stop_unstarted,    \* targets not yet started when a stop request found the run running
    requested_steps,   \* the steps argument of start_pipeline as the caller passed it
    error,             \* active_processes[pid]['error']; "": no such key
    store,             \* datastore: the EmailData rows, in insertion order
    store_op,          \* the last _persist_chunk call made on the datastore on its own
    v_pc,              \* position of a verify_email_advanced call on the verifier
    v_email,           \* the normalized address of that call
    enable_smtp,       \* EmailVerifier.enable_smtp
    quick_mode,        \* EmailVerifier.quick_mode
    mx_hosts,          \* mx_hosts of verify_email_smtp
    mx_index,          \* position of the loop over the MX hosts (1-based)
    attempt,           \* attempt of the inner loop of verify_email_smtp
    accepted_any,      \* accepted_any of verify_email_smtp
    temp_seen,         \* temp_seen of verify_email_smtp
    catchall,          \* catchall of verify_email_smtp
    notes,             \* notes of verify_email_smtp
    probes,            \* the SMTP conversations of the call, in order
    v_result,          \* (quality, status) the call returned
    smtp_cache,        \* EmailVerifier._smtp_cache
    mx_cache,          \* EmailVerifier._mx_cache
    verifications,     \* calls made on the verifier
    p_pc,              \* position of a smtp_check_address call
    conn,              \* the TCP connection of that call: none, open or closed
    sent,              \* the SMTP commands the call has sent
    p_result,          \* (accepted, note, tempfail) the call returned
    conversations,     \* smtp_check_address calls made
    text_in,           \* the raw argument of a normalize_email call
    text_out,          \* what normalize_email returned last
    text_n,            \* normalize_email calls made on the text
    r_pc,              \* position of each caller of resolve_mx
    r_domain,          \* the lower-cased domain of each caller's call
    r_res,             \* res of each caller's call
    r_seen,            \* the tuples returned for the domain before each caller's call began
    r_queried,         \* whether each caller's call has asked the name servers
    returned,          \* the tuples resolve_mx has returned, by domain
    misses,            \* the calls that found the cache empty, by domain
    dns_queries,       \* the queries made to the name servers, by domain
    page,              \* the signals of the page handed to is_blog_page
    classified,        \* (is_blog, score, indicators) is_blog_page returned
    page_pc,           \* whether the page has been classified
    extracted,         \* all_emails of each site: the distinct addresses its pages gave
    context,           \* context_score of each site
    scrape_urls,       \* the urls scrape_emails was called with
    verified_emails,   \* results['verified_emails'] scrape_emails returned
    rank_pc,           \* whether scrape_emails has returned
    commit_pc,         \* where a _persist_chunk call stands
    commit_call,       \* the arguments of the call
    commit_attempt,    \* attempt of the retry loop
    retry_delay,       \* retry_delay
    slept,             \* the sleeps of the call, in seconds
    raised,            \* the messages of the exceptions of the call
    store_before,      \* the datastore when the call was made
    commit_calls,      \* the _persist_chunk calls made
    stage_data,        \* the data a stage function is called with
    count_step,        \* the stage that is counting
    counters,          \* active_processes[pid]: total_items, processed_items, progress
    completed,         \* processed / completed of the stage function
    uncollected,       \* the tasks whose result the stage has not counted
    blog_pool_semaphore, \* self._blog_pool_semaphore: 0 is None, else the semaphore object
    pool,              \* the local "pool" of each run's _run_blog_check, 0 before the call
    slot,              \* each item task of each run: none, pending, holding, done
    run_status,        \* active_processes[pid]['status'] of each run
    semaphores,        \* the number of semaphore objects created so far
    websites,          \* the websites of two targets of one chunk
    domain_keys,       \* what _extract_domain returned for each of them
    key_pc,            \* whether _persist_chunk has computed the keys
    websocket_connections, \* self.websocket_connections[process_id]: a connection, 0 when absent
    socket_state,      \* each connection: none, open, broken, failed, closed
    received,          \* the progress events each connection has received
    progress_sent,     \* the send_progress calls of the run so far
    second_calls       \* the start_pipeline calls made for the process id while its run was running

\* The state of the orchestrator and of its run.
pipeline_vars ==
    << status, steps, step_index, current_step, pc, current_data, task, item,
       smtp_in_flight, batch_start, todo, all_results, results_chunk, verified_results,
       results, persisted, data_json, processed_items, pool_set, events, stop_unstarted,
       requested_steps, error >>

\* The state of the collaborators taken on their own.
store_vars == << store, store_op >>

\* The verifier without its MX cache.
verifier_locals ==
    << v_pc, v_email, enable_smtp, quick_mode, mx_hosts, mx_index, attempt, accepted_any,
       temp_seen, catchall, notes, probes, v_result, smtp_cache, verifications >>

verifier_vars == << verifier_locals, mx_cache >>

resolver_vars ==
    << r_pc, r_domain, r_res, r_seen, r_queried, returned, misses, dns_queries >>

probe_vars == << p_pc, conn, sent, p_result, conversations >>

text_vars == << text_in, text_out, text_n >>

blog_vars == << page, classified, page_pc >>

rank_vars == << extracted, context, scrape_urls, verified_emails, rank_pc >>

commit_vars == << commit_pc, commit_call, commit_attempt, retry_delay, slept, raised, store_before, commit_calls >>

count_vars == << stage_data, count_step, counters, completed, uncollected >>

pool_vars == << blog_pool_semaphore, pool, slot, run_status, semaphores >>

key_vars == << websites, domain_keys, key_pc >>

socket_vars == << websocket_connections, socket_state, received, progress_sent >>

restart_vars == << second_calls >>

aux_vars == << store_vars, verifier_vars, probe_vars, text_vars, resolver_vars, blog_vars, rank_vars, commit_vars, count_vars, pool_vars, key_vars, socket_vars, restart_vars >>

\* What a collaborator taken on its own leaves alone.
beside_store == << pipeline_vars, verifier_vars, probe_vars, text_vars, resolver_vars, blog_vars, rank_vars, commit_vars, count_vars, pool_vars, key_vars, socket_vars, restart_vars >>

beside_verifier == << pipeline_vars, store_vars, probe_vars, text_vars, resolver_vars, blog_vars, rank_vars, commit_vars, count_vars, pool_vars, key_vars, socket_vars, restart_vars >>

beside_probe == << pipeline_vars, store_vars, verifier_vars, text_vars, resolver_vars, blog_vars, rank_vars, commit_vars, count_vars, pool_vars, key_vars, socket_vars, restart_vars >>

beside_text == << pipeline_vars, store_vars, verifier_vars, probe_vars, resolver_vars, blog_vars, rank_vars, commit_vars, count_vars, pool_vars, key_vars, socket_vars, restart_vars >>

beside_resolver == << pipeline_vars, store_vars, verifier_locals, probe_vars, text_vars, blog_vars, rank_vars, commit_vars, count_vars, pool_vars, key_vars, socket_vars, restart_vars >>

beside_blog == << pipeline_vars, store_vars, verifier_vars, probe_vars, text_vars, resolver_vars, rank_vars, commit_vars, count_vars, pool_vars, key_vars, socket_vars, restart_vars >>

beside_rank == << pipeline_vars, store_vars, verifier_vars, probe_vars, text_vars, resolver_vars, blog_vars, commit_vars, count_vars, pool_vars, key_vars, socket_vars, restart_vars >>

beside_commit == << pipeline_vars, store_op, verifier_vars, probe_vars, text_vars, resolver_vars, blog_vars, rank_vars, count_vars, pool_vars, key_vars, socket_vars, restart_vars >>

beside_count == << pipeline_vars, store_vars, verifier_vars, probe_vars, text_vars, resolver_vars, blog_vars, rank_vars, commit_vars, pool_vars, key_vars, socket_vars, restart_vars >>

beside_pool == << pipeline_vars, store_vars, verifier_vars, probe_vars, text_vars, resolver_vars, blog_vars, rank_vars, commit_vars, count_vars, key_vars, socket_vars, restart_vars >>

beside_key == << pipeline_vars, store_vars, verifier_vars, probe_vars, text_vars, resolver_vars, blog_vars, rank_vars, commit_vars, count_vars, pool_vars, socket_vars, restart_vars >>

beside_socket == << pipeline_vars, store_vars, verifier_vars, probe_vars, text_vars, resolver_vars, blog_vars, rank_vars, commit_vars, count_vars, pool_vars, key_vars, restart_vars >>

beside_restart ==
    << status, steps, step_index, current_step, pc, current_data, task, item,
       smtp_in_flight, batch_start, todo, all_results, results_chunk, verified_results,
       results, persisted, data_json, processed_items, pool_set, stop_unstarted,
       requested_steps, error,
       store_vars, verifier_vars, probe_vars, text_vars, resolver_vars, blog_vars, rank_vars, commit_vars, count_vars, pool_vars, key_vars, socket_vars >>

vars == << pipeline_vars, aux_vars >>

Min(a, b) == IF a < b THEN a ELSE b

Range(s) == { s[k] : k \in 1..Len(s) }

\* The stage list taken as the caller passed it.
steps_as_given(s) == s

\* start_pipeline: "if step not in ordered_steps: ordered_steps.append(step)".
RECURSIVE OrderedSteps(_)
OrderedSteps(s) ==
    IF s = <<>> THEN <<>>
    ELSE LET head == OrderedSteps(SubSeq(s, 1, Len(s) - 1))
             last == s[Len(s)]
         IN  IF last \in Range(head) THEN head ELSE Append(head, last)

chunk_size(step) ==
    CASE step = "blog_check" -> blog_chunk_size
      [] step = "email_scrape" -> scrape_chunk_size
      [] OTHER -> verify_chunk_size

batch_size(step) ==
    CASE step = "blog_check" -> blog_batch_size
      [] step = "email_scrape" -> scrape_batch_size
      [] OTHER -> verify_batch_size

concurrency(step) ==
    CASE step = "blog_check" -> blog_concurrency
      [] step = "email_scrape" -> scrape_concurrency
      [] OTHER -> verification_semaphore_limit

(***************************************************************************)
(* What a stage writes onto a target.  A record with present = FALSE is a  *)
(* key the dict does not hold.                                             *)
(***************************************************************************)
Outcomes == {"ok", "timeout", "error"}

\* How the site or mail server of a target may behave towards the stage call:
\* answer in time ("ok"), stay silent past the per-item timeout, or make the
\* call raise.
may(i) ==
    CASE i % 3 = 1 -> {"ok", "timeout"}
      [] i % 3 = 2 -> {"ok", "error"}
      [] OTHER -> {"ok", "timeout"}

\* Stand-in for BlogChecker.check_single_url: some fixed answer per target.
blog_answer(i) ==
    [present |-> TRUE, is_blog |-> (i % 2 = 1),
     blog_score |-> IF i % 2 = 1 THEN 8 ELSE 2, error |-> ""]

\* _run_blog_check.process_item: what item['blog_check'] / is_blog / blog_score become.
blog_result(i, oc) ==
    CASE oc = "ok" -> blog_answer(i)
      [] oc = "timeout" ->
            [present |-> TRUE, is_blog |-> FALSE, blog_score |-> 0,
             error |-> "timeout_after_120_seconds"]
      [] OTHER ->
            [present |-> TRUE, is_blog |-> FALSE, blog_score |-> 0,
             error |-> "exception"]

\* _run_email_scrape.process_item: item['scraped_emails'] / item['scrape_error'].
\* The scraper finds the target's own address.
scrape_result(i, oc) ==
    CASE oc = "ok" ->
            [present |-> TRUE, scraped_emails |-> {i}, scrape_error |-> ""]
      [] oc = "timeout" ->
            [present |-> TRUE, scraped_emails |-> {},
             scrape_error |-> "timeout_after_300_seconds"]
      [] OTHER ->
            [present |-> TRUE, scraped_emails |-> {}, scrape_error |-> "exception"]

\* Stand-in for EmailVerifier.verify_email_advanced: some fixed answer per address.
verify_answer(e) ==
    IF e % 2 = 1
    THEN [present |-> TRUE, valid |-> TRUE, quality |-> 90, status |-> "deliverable"]
    ELSE [present |-> TRUE, valid |-> FALSE, quality |-> 40, status |-> "rejected"]

\* _run_email_verify.verify_email: the result returned for an address.
verify_result(e, oc) ==
    CASE oc = "ok" -> verify_answer(e)
      [] oc = "timeout" ->
            [present |-> TRUE, valid |-> FALSE, quality |-> 0, status |-> "timeout"]
      [] OTHER ->
            [present |-> TRUE, valid |-> FALSE, quality |-> 0, status |-> "error"]

NoBlog == [present |-> FALSE, is_blog |-> FALSE, blog_score |-> 0, error |-> ""]
NoScrape == [present |-> FALSE, scraped_emails |-> {}, scrape_error |-> ""]
NoVerify == [present |-> FALSE, valid |-> FALSE, quality |-> 0, status |-> ""]

\* A target as main.py hands it over: website and email, no stage output yet.
NewItem == [blog_check |-> NoBlog, email_scrape |-> NoScrape, email_verify |-> NoVerify]

(***************************************************************************)
(* EmailVerifier taken on its own: one verifier object answering           *)
(* verify_email_advanced calls one after another.  An address is its local *)
(* part and the labels of its host; a note is the pair of its kind and its *)
(* reply code, with the MX host it was taken from.                         *)
(***************************************************************************)
MaxVerifications == 2

attempts_thorough == 3
max_mx_hosts == 3
max_catchall_hosts == 2
notes_joined == 8

soft_temp_codes == {421, 450, 451, 452}

high_rep_domains == { << "gmail", "com" >> }

\* The MX hosts whose name holds one of guarded_hints.
GuardedHosts == { "gmail-smtp-in.l.google.com" }

asset_tlds == { "png" }

\* The top-level labels of 2 to 24 letters.
LetterTlds == { "com", "png" }

NoAddress == [local |-> "", host |-> <<>>]

\* The addresses handed to the verifier, as their callers spell them.
Addresses ==
    { [local |-> "ed", host |-> << "nomx", "com" >>],
      [local |-> "ed", host |-> << "nx", "com" >>],
      [local |-> "ed", host |-> << "a", "com" >>],
      [local |-> "ED", host |-> << "a", "com" >>],
      [local |-> "ed", host |-> << "mx2", "com" >>],
      [local |-> "ed", host |-> << "gmail", "com" >>],
      [local |-> "globe", host |-> << "2x", "png" >>],
      NoAddress }

\* The addresses one verifier is asked about when its probe schedule is
\* followed: a domain with four MX hosts, and one with none but an A record.
ScheduleAddresses ==
    { [local |-> "ed", host |-> << "mx4", "com" >>],
      [local |-> "ed", host |-> << "a", "com" >>] }

normalize_email(raw) ==
    [raw EXCEPT !.local = IF @ = "ED" THEN "ed" ELSE @]

Emails == { normalize_email(a) : a \in Addresses \cup ScheduleAddresses }

Domains == { e.host : e \in Emails }

is_valid_email_format(email) ==
    /\ email.local # ""
    /\ Len(email.host) >= 2
    /\ email.host[Len(email.host)] \in LetterTlds

looks_like_asset_or_id(email) ==
    \/ email.local = ""
    \/ Len(email.host) < 2
    \/ email.host[Len(email.host)] \in asset_tlds

\* What the name servers answer for a domain.
dns(domain) ==
    CASE domain = << "a", "com" >> ->
           [mx |-> "NoAnswer", answers |-> {}, a |-> TRUE]
      [] domain = << "mx2", "com" >> ->
           [mx |-> "answer", answers |-> { <<20, "mx-b.mx2.com">>, <<10, "mx-a.mx2.com">> },
            a |-> TRUE]
      [] domain = << "mx4", "com" >> ->
           [mx |-> "answer",
            answers |-> { <<30, "mx-c.mx4.com">>, <<10, "mx-a.mx4.com">>,
                          <<40, "mx-d.mx4.com">>, <<20, "mx-b.mx4.com">> },
            a |-> TRUE]
      [] domain = << "gmail", "com" >> ->
           [mx |-> "answer", answers |-> { <<5, "gmail-smtp-in.l.google.com">> }, a |-> TRUE]
      [] domain = << "nomx", "com" >> ->
           [mx |-> "NoAnswer", answers |-> {}, a |-> FALSE]
      [] OTHER ->
           [mx |-> "NXDOMAIN", answers |-> {}, a |-> FALSE]

\* sorted(answers, key=lambda r: r.preference), as the exchanges.
RECURSIVE sorted_by_preference(_)
sorted_by_preference(answers) ==
    IF answers = {} THEN <<>>
    ELSE LET r == CHOOSE x \in answers : \A y \in answers : x[1] <= y[1]
         IN  << r[2] >> \o sorted_by_preference(answers \ {r})

NotCached == [cached |-> FALSE, hosts |-> <<>>, note |-> ""]

\* resolve_mx falling back to the domain itself without asking for its A record.
resolve_mx_query_unchecked_fallback(domain) ==
    LET d == dns(domain)
    IN  IF d.mx = "answer"
        THEN [cached |-> TRUE, hosts |-> sorted_by_preference(d.answers), note |-> "mx_ok"]
        ELSE [cached |-> TRUE, hosts |-> << "a.com" >>, note |-> "mx_fallback_a"]

\* resolve_mx on a cache miss; an A fallback names the domain itself as host.
resolve_mx_query(domain) ==
    LET d == dns(domain)
    IN  CASE d.mx = "answer" ->
               [cached |-> TRUE, hosts |-> sorted_by_preference(d.answers), note |-> "mx_ok"]
          [] d.mx = "NoAnswer" /\ d.a ->
               [cached |-> TRUE, hosts |-> << "a.com" >>, note |-> "mx_fallback_a"]
          [] OTHER ->
               [cached |-> TRUE, hosts |-> <<>>, note |-> "no_mx"]

resolve_mx(cache, domain) ==
    IF cache[domain].cached THEN cache[domain] ELSE resolve_mx_query(domain)

\* How an SMTP conversation with an MX host can go: the stage it ends at, the
\* reply code of that stage, and whether the reply text holds a soft-failure
\* phrase.
Conversations ==
    { [stage |-> "rcpt", code |-> 250, soft |-> FALSE],
      [stage |-> "rcpt", code |-> 250, soft |-> TRUE],
      [stage |-> "rcpt", code |-> 550, soft |-> FALSE],
      [stage |-> "rcpt", code |-> 451, soft |-> FALSE],
      [stage |-> "helo_error", code |-> 0, soft |-> FALSE] }

\* smtp_check_address advising a retry after every 4xx reply to MAIL FROM.
smtp_check_address_mailfrom_4xx(conv) ==
    CASE conv.stage = "rcpt" ->
           [ok |-> conv.code \in {250, 251},
            note |-> [kind |-> "rcpt", code |-> conv.code],
            is_temp |-> conv.code \in soft_temp_codes \/ conv.soft]
      [] conv.stage = "mailfrom" ->
           [ok |-> FALSE,
            note |-> [kind |-> "mailfrom", code |-> conv.code],
            is_temp |-> conv.code \in 400..499]
      [] conv.stage \in {"timeout", "connect_fail", "smtp_error"} ->
           [ok |-> FALSE, note |-> [kind |-> conv.stage, code |-> 0], is_temp |-> TRUE]
      [] OTHER ->
           [ok |-> FALSE, note |-> [kind |-> conv.stage, code |-> 0], is_temp |-> FALSE]

\* smtp_check_address reporting tempfail only for a reply that did not accept.
smtp_check_address_exclusive(conv) ==
    CASE conv.stage = "rcpt" ->
           [ok |-> conv.code \in {250, 251},
            note |-> [kind |-> "rcpt", code |-> conv.code],
            is_temp |-> conv.code \notin {250, 251}
                        /\ (conv.code \in soft_temp_codes \/ conv.soft)]
      [] conv.stage = "mailfrom" ->
           [ok |-> FALSE,
            note |-> [kind |-> "mailfrom", code |-> conv.code],
            is_temp |-> conv.code \in soft_temp_codes]
      [] conv.stage \in {"timeout", "connect_fail", "smtp_error"} ->
           [ok |-> FALSE, note |-> [kind |-> conv.stage, code |-> 0], is_temp |-> TRUE]
      [] OTHER ->
           [ok |-> FALSE, note |-> [kind |-> conv.stage, code |-> 0], is_temp |-> FALSE]

\* smtp_check_address: (accepted, note, tempfail) of a conversation.
smtp_check_address(conv) ==
    CASE conv.stage = "rcpt" ->
           [ok |-> conv.code \in {250, 251},
            note |-> [kind |-> "rcpt", code |-> conv.code],
            is_temp |-> conv.code \in soft_temp_codes \/ conv.soft]
      [] conv.stage = "mailfrom" ->
           [ok |-> FALSE,
            note |-> [kind |-> "mailfrom", code |-> conv.code],
            is_temp |-> conv.code \in soft_temp_codes]
      [] conv.stage \in {"timeout", "connect_fail", "smtp_error"} ->
           [ok |-> FALSE, note |-> [kind |-> conv.stage, code |-> 0], is_temp |-> TRUE]
      [] OTHER ->
           [ok |-> FALSE, note |-> [kind |-> conv.stage, code |-> 0], is_temp |-> FALSE]

NoResult == [quality |-> 0, status |-> "none"]

provider_is_guarded(joined) == \E k \in 1..Len(joined) : joined[k].mx \in GuardedHosts

\* The result verify_email_smtp draws from its probes, with every probe
\* counted as an acceptance.
classify_accepting(accepted, is_catchall, all_notes, temp, quick) ==
    [quality |-> IF quick THEN 85 ELSE 90, status |-> "deliverable"]

\* The result verify_email_smtp draws from its probes.
classify(accepted, is_catchall, all_notes, temp, quick) ==
    LET joined == SubSeq(all_notes, 1, Min(notes_joined, Len(all_notes)))
        hard_reject == \E k \in 1..Len(all_notes) :
                          all_notes[k].kind = "rcpt" /\ all_notes[k].code \in {550, 551}
    IN  IF accepted /\ ~is_catchall
        THEN [quality |-> IF quick THEN 85 ELSE 90, status |-> "deliverable"]
        ELSE IF accepted /\ is_catchall
        THEN [quality |-> 75, status |-> "catchall_suspected"]
        ELSE IF hard_reject
        THEN [quality |-> 40, status |-> "rejected"]
        ELSE IF temp \/ provider_is_guarded(joined)
        THEN [quality |-> 70, status |-> "temporary_fail_retry"]
        ELSE IF \E k \in 1..Len(joined) : joined[k].kind = "no_mx"
        THEN [quality |-> 30, status |-> "no_mx"]
        ELSE [quality |-> 55, status |-> "unverifiable_provider_neutral"]

\* verify_email_simple scoring a high-reputation domain as valid.
verify_email_simple_highrep_valid(email, hosts) ==
    IF hosts = <<>>
    THEN [quality |-> 30, status |-> "no_mx"]
    ELSE IF email.host \in high_rep_domains
    THEN [quality |-> 85, status |-> "domain_ok_highrep"]
    ELSE [quality |-> 70, status |-> "domain_ok"]

verify_email_simple(email, hosts) ==
    IF ~is_valid_email_format(email) \/ looks_like_asset_or_id(email)
    THEN [quality |-> 0, status |-> "invalid"]
    ELSE IF hosts = <<>>
    THEN [quality |-> 30, status |-> "no_mx"]
    ELSE IF email.host \in high_rep_domains
    THEN [quality |-> 80, status |-> "domain_ok_highrep"]
    ELSE [quality |-> 70, status |-> "domain_ok"]

verifier_init ==
    /\ v_pc = "idle"
    /\ v_email = NoAddress
    /\ enable_smtp = TRUE
    /\ quick_mode = TRUE
    /\ mx_hosts = <<>>
    /\ mx_index = 1
    /\ attempt = 0
    /\ accepted_any = FALSE
    /\ temp_seen = FALSE
    /\ catchall = FALSE
    /\ notes = <<>>
    /\ probes = <<>>
    /\ v_result = NoResult
    /\ smtp_cache = [e \in Emails |-> NoResult]
    /\ mx_cache = [d \in Domains |-> NotCached]
    /\ verifications = 0

\* verify_email_smtp returns res after caching it.
smtp_return(email, res) ==
    /\ v_result' = res
    /\ smtp_cache' = [smtp_cache EXCEPT ![email] = res]
    /\ v_pc' = "done"

\* verify_email_advanced up to its first SMTP conversation, or to its return
\* when it needs none.
verify_email_advanced(raw) ==
    LET email == normalize_email(raw)
        mx == resolve_mx(mx_cache, email.host)
    IN  /\ v_pc \in {"idle", "done"}
        /\ verifications < MaxVerifications
        /\ verifications' = verifications + 1
        /\ v_email' = email
        /\ probes' = <<>>
        /\ mx_index' = 1
        /\ attempt' = 0
        /\ accepted_any' = FALSE
        /\ temp_seen' = FALSE
        /\ catchall' = FALSE
        /\ UNCHANGED << enable_smtp, quick_mode >>
        /\ IF email = NoAddress
           THEN /\ v_result' = [quality |-> 0, status |-> "invalid"]
                /\ v_pc' = "done"
                /\ UNCHANGED << smtp_cache, mx_cache, mx_hosts, notes >>
           ELSE IF ~enable_smtp
           THEN /\ v_result' = verify_email_simple(email, mx.hosts)
                /\ v_pc' = "done"
                /\ mx_cache' = IF is_valid_email_format(email) /\ ~looks_like_asset_or_id(email)
                               THEN [mx_cache EXCEPT ![email.host] = mx] ELSE mx_cache
                /\ UNCHANGED << smtp_cache, mx_hosts, notes >>
           ELSE IF smtp_cache[email] # NoResult
           THEN /\ v_result' = smtp_cache[email]
                /\ v_pc' = "done"
                /\ UNCHANGED << smtp_cache, mx_cache, mx_hosts, notes >>
           ELSE IF ~is_valid_email_format(email) \/ looks_like_asset_or_id(email)
           THEN /\ smtp_return(email, [quality |-> 0, status |-> "invalid"])
                /\ UNCHANGED << mx_cache, mx_hosts, notes >>
           ELSE /\ mx_cache' = [mx_cache EXCEPT ![email.host] = mx]
                /\ mx_hosts' = mx.hosts
                /\ notes' = << [mx |-> "", kind |-> mx.note, code |-> 0] >>
                /\ IF mx.hosts = <<>>
                   THEN smtp_return(email, [quality |-> 30, status |-> "no_mx"])
                   ELSE /\ v_pc' = "probe"
                        /\ UNCHANGED << v_result, smtp_cache >>
    /\ UNCHANGED beside_verifier

\* The catch-all probe made after every acceptance, whatever the mode.
after_mx_loop_always_probes(accepted, all_notes, temp) ==
    IF accepted
    THEN /\ v_pc' = "catchall"
         /\ mx_index' = 1
         /\ UNCHANGED << v_result, smtp_cache >>
    ELSE /\ smtp_return(v_email, classify(accepted, FALSE, all_notes, temp, quick_mode))
         /\ UNCHANGED mx_index

\* What follows the loop over the MX hosts: the catch-all probe, or the result.
after_mx_loop(accepted, all_notes, temp) ==
    IF accepted /\ ~quick_mode
    THEN /\ v_pc' = "catchall"
         /\ mx_index' = 1
         /\ UNCHANGED << v_result, smtp_cache >>
    ELSE /\ smtp_return(v_email, classify(accepted, FALSE, all_notes, temp, quick_mode))
         /\ UNCHANGED mx_index

\* One smtp_check_address(mx, email) of a loop over all of mx_hosts.
smtp_probe_every_host(conv) ==
    LET mx == mx_hosts[mx_index]
        r == smtp_check_address(conv)
        attempts == IF quick_mode THEN 1 ELSE attempts_thorough
        all_notes == Append(notes, [mx |-> mx, kind |-> r.note.kind, code |-> r.note.code])
        temp == temp_seen \/ r.is_temp
    IN  /\ v_pc = "probe"
        /\ probes' = Append(probes, [mx |-> mx, rcpt |-> "address", conv |-> conv])
        /\ notes' = all_notes
        /\ temp_seen' = temp
        /\ accepted_any' = r.ok
        /\ IF r.ok
           THEN /\ after_mx_loop(TRUE, all_notes, temp)
                /\ UNCHANGED attempt
           ELSE IF ~quick_mode /\ r.is_temp /\ attempt + 1 < attempts
           THEN /\ attempt' = attempt + 1
                /\ v_pc' = "probe"
                /\ UNCHANGED << mx_index, v_result, smtp_cache >>
           ELSE IF mx_index < Len(mx_hosts)
           THEN /\ attempt' = 0
                /\ mx_index' = mx_index + 1
                /\ v_pc' = "probe"
                /\ UNCHANGED << v_result, smtp_cache >>
           ELSE /\ after_mx_loop(FALSE, all_notes, temp)
                /\ UNCHANGED attempt
        /\ UNCHANGED << v_email, enable_smtp, quick_mode, mx_hosts, catchall, mx_cache,
                        verifications, beside_verifier >>

\* One smtp_check_address(mx, email) of the loop over mx_hosts[:3].
smtp_probe(conv) ==
    LET mx == mx_hosts[mx_index]
        r == smtp_check_address(conv)
        attempts == IF quick_mode THEN 1 ELSE attempts_thorough
        all_notes == Append(notes, [mx |-> mx, kind |-> r.note.kind, code |-> r.note.code])
        temp == temp_seen \/ r.is_temp
    IN  /\ v_pc = "probe"
        /\ probes' = Append(probes, [mx |-> mx, rcpt |-> "address", conv |-> conv])
        /\ notes' = all_notes
        /\ temp_seen' = temp
        /\ accepted_any' = r.ok
        /\ IF r.ok
           THEN /\ after_mx_loop(TRUE, all_notes, temp)
                /\ UNCHANGED attempt
           ELSE IF ~quick_mode /\ r.is_temp /\ attempt + 1 < attempts
           THEN /\ attempt' = attempt + 1
                /\ v_pc' = "probe"
                /\ UNCHANGED << mx_index, v_result, smtp_cache >>
           ELSE IF mx_index < Min(max_mx_hosts, Len(mx_hosts))
           THEN /\ attempt' = 0
                /\ mx_index' = mx_index + 1
                /\ v_pc' = "probe"
                /\ UNCHANGED << v_result, smtp_cache >>
           ELSE /\ after_mx_loop(FALSE, all_notes, temp)
                /\ UNCHANGED attempt
        /\ UNCHANGED << v_email, enable_smtp, quick_mode, mx_hosts, catchall, mx_cache,
                        verifications, beside_verifier >>

\* The catch-all probe counting every acceptance, soft failure or not.
catchall_probe_any_acceptance(conv) ==
    LET mx == mx_hosts[mx_index]
        r == smtp_check_address(conv)
        all_notes == Append(notes, [mx |-> "", kind |-> r.note.kind, code |-> r.note.code])
        found == r.ok
    IN  /\ v_pc = "catchall"
        /\ probes' = Append(probes, [mx |-> mx, rcpt |-> "catchall_probe", conv |-> conv])
        /\ notes' = all_notes
        /\ catchall' = found
        /\ IF ~found /\ mx_index < Min(max_catchall_hosts, Len(mx_hosts))
           THEN /\ mx_index' = mx_index + 1
                /\ v_pc' = "catchall"
                /\ UNCHANGED << v_result, smtp_cache >>
           ELSE /\ smtp_return(v_email, classify(accepted_any, found, all_notes, temp_seen, quick_mode))
                /\ UNCHANGED mx_index
        /\ UNCHANGED << v_email, enable_smtp, quick_mode, mx_hosts, attempt, accepted_any,
                        temp_seen, mx_cache, verifications, beside_verifier >>

\* One smtp_check_address(mx, probe_addr) of the loop over mx_hosts[:2].
catchall_probe(conv) ==
    LET mx == mx_hosts[mx_index]
        r == smtp_check_address(conv)
        all_notes == Append(notes, [mx |-> "", kind |-> r.note.kind, code |-> r.note.code])
        found == r.ok /\ ~r.is_temp
    IN  /\ v_pc = "catchall"
        /\ probes' = Append(probes, [mx |-> mx, rcpt |-> "catchall_probe", conv |-> conv])
        /\ notes' = all_notes
        /\ catchall' = found
        /\ IF ~found /\ mx_index < Min(max_catchall_hosts, Len(mx_hosts))
           THEN /\ mx_index' = mx_index + 1
                /\ v_pc' = "catchall"
                /\ UNCHANGED << v_result, smtp_cache >>
           ELSE /\ smtp_return(v_email, classify(accepted_any, found, all_notes, temp_seen, quick_mode))
                /\ UNCHANGED mx_index
        /\ UNCHANGED << v_email, enable_smtp, quick_mode, mx_hosts, attempt, accepted_any,
                        temp_seen, mx_cache, verifications, beside_verifier >>

(***************************************************************************)
(* One smtp_check_address call after another, command by command.  The     *)
(* connection is closed by smtplib itself when the server hangs up or does *)
(* not answer in time (SMTPServerDisconnected), and by quit().             *)
(***************************************************************************)
MaxConversations == 2

ConnectOutcomes == {"ok", "timeout", "connect_fail", "smtp_error"}

\* EHLO answered 2xx; EHLO refused and HELO sent; STARTTLS offered and taken;
\* STARTTLS offered and failing; the server gone.
EhloOutcomes == {"ehlo", "helo", "starttls", "starttls_failed", "timeout"}

MailReplies == {250, 421, 451, 454, 550}

RcptReplies == {250, 251, 450, 550, 551, 554}

NoProbeResult == [ok |-> FALSE, note |-> [kind |-> "", code |-> 0], is_temp |-> FALSE]

probe_init ==
    /\ p_pc = "idle"
    /\ conn = "none"
    /\ sent = <<>>
    /\ p_result = NoProbeResult
    /\ conversations = 0

\* smtp_check_address returns from one of its except clauses.
probe_raises(stage) ==
    /\ p_pc' = "returned"
    /\ p_result' = smtp_check_address([stage |-> stage, code |-> 0, soft |-> FALSE])

\* "try: server.quit()" and the return that follows it.
probe_quits(cmds, conv) ==
    IF conv.stage \in {"rcpt", "mailfrom"}
    THEN /\ sent' = sent \o cmds \o << "QUIT" >>
         /\ conn' = "closed"
         /\ p_pc' = "returned"
         /\ p_result' = smtp_check_address(conv)
    ELSE /\ sent' = sent \o cmds
         /\ conn' = IF conv.stage = "timeout" THEN "closed" ELSE conn
         /\ probe_raises(conv.stage)

\* smtplib.SMTP(mx_host, 25, timeout): the connection and the greeting.
smtp_connect(oc) ==
    /\ p_pc \in {"idle", "returned"}
    /\ conversations < MaxConversations
    /\ conversations' = conversations + 1
    /\ sent' = <<>>
    /\ IF oc = "ok"
       THEN /\ conn' = "open"
            /\ p_pc' = "ehlo"
            /\ p_result' = NoProbeResult
       ELSE /\ conn' = "none"
            /\ probe_raises(oc)
    /\ UNCHANGED beside_probe

\* ehlo, helo when EHLO is refused, and the opportunistic STARTTLS.
smtp_ehlo(oc) ==
    /\ p_pc = "ehlo"
    /\ IF oc = "timeout"
       THEN probe_quits(<< "EHLO" >>, [stage |-> "timeout", code |-> 0, soft |-> FALSE])
       ELSE /\ sent' = sent \o
                      ( CASE oc = "ehlo" -> << "EHLO" >>
                          [] oc = "helo" -> << "EHLO", "HELO" >>
                          [] oc = "starttls" -> << "EHLO", "STARTTLS", "EHLO" >>
                          [] OTHER -> << "EHLO", "STARTTLS" >> )
            /\ p_pc' = "mail"
            /\ UNCHANGED << conn, p_result >>
    /\ UNCHANGED << conversations, beside_probe >>

\* server.mail(...): a reply, or the server gone.
smtp_mail(conv) ==
    /\ p_pc = "mail"
    /\ IF conv.stage = "mailfrom" /\ conv.code < 400
       THEN /\ sent' = Append(sent, "MAIL")
            /\ p_pc' = "rcpt"
            /\ UNCHANGED << conn, p_result >>
       ELSE probe_quits(<< "MAIL" >>, conv)
    /\ UNCHANGED << conversations, beside_probe >>

\* server.rcpt(rcpt): a reply with its text, the server gone, or a recipient
\* that cannot be encoded (the command is not sent and nothing is closed).
smtp_rcpt(conv) ==
    /\ p_pc = "rcpt"
    /\ probe_quits(IF conv.stage = "smtp_error" THEN <<>> ELSE << "RCPT" >>, conv)
    /\ UNCHANGED << conversations, beside_probe >>

MailOutcomes ==
    [stage : {"mailfrom"}, code : MailReplies, soft : {FALSE}]
        \cup [stage : {"timeout"}, code : {0}, soft : {FALSE}]

RcptOutcomes ==
    [stage : {"rcpt"}, code : RcptReplies, soft : BOOLEAN]
        \cup [stage : {"timeout", "smtp_error"}, code : {0}, soft : {FALSE}]

(***************************************************************************)
(* normalize_email on the characters of its input: a text is the sequence  *)
(* of its characters.                                                      *)
(***************************************************************************)
MaxText == 3

UpperCase == << "A", "B", "C", "D", "E", "F", "G", "H", "I", "J", "K", "L", "M", "N", "O", "P", "Q", "R", "S", "T", "U", "V", "W", "X", "Y", "Z" >>

LowerCase == << "a", "b", "c", "d", "e", "f", "g", "h", "i", "j", "k", "l", "m", "n", "o", "p", "q", "r", "s", "t", "u", "v", "w", "x", "y", "z" >>

lower_char(c) ==
    IF \E k \in 1..Len(UpperCase) : UpperCase[k] = c
    THEN LowerCase[CHOOSE k \in 1..Len(UpperCase) : UpperCase[k] = c]
    ELSE c

\* str.lower()
lower_text(s) == [k \in 1..Len(s) |-> lower_char(s[k])]

RECURSIVE lstrip_chars(_, _)
lstrip_chars(s, cs) ==
    IF s # <<>> /\ s[1] \in cs THEN lstrip_chars(Tail(s), cs) ELSE s

RECURSIVE rstrip_chars(_, _)
rstrip_chars(s, cs) ==
    IF s # <<>> /\ s[Len(s)] \in cs THEN rstrip_chars(SubSeq(s, 1, Len(s) - 1), cs) ELSE s

\* str.strip(chars)
strip_chars(s, cs) == rstrip_chars(lstrip_chars(s, cs), cs)

Whitespace == {" "}

\* re.sub(r"^mailto:", "", e, flags=re.I): one prefix, in any letter case.
sub_mailto(s) ==
    LET mailto == << "m", "a", "i", "l", "t", "o", ":" >>
    IN  IF Len(s) >= Len(mailto) /\ lower_text(SubSeq(s, 1, Len(mailto))) = mailto
        THEN SubSeq(s, Len(mailto) + 1, Len(s))
        ELSE s

\* re.split(r"[?#|\s]", e, maxsplit=1)[0]
RECURSIVE split_first(_)
split_first(s) ==
    IF s = <<>> \/ s[1] \in {"?", "#", "|"} \cup Whitespace THEN <<>>
    ELSE << s[1] >> \o split_first(Tail(s))

\* str.replace(old, new): every occurrence, left to right, in the letter case
\* of old only.
RECURSIVE replace(_, _, _)
replace(s, old, new) ==
    IF Len(s) < Len(old) THEN s
    ELSE IF SubSeq(s, 1, Len(old)) = old
    THEN new \o replace(SubSeq(s, Len(old) + 1, Len(s)), old, new)
    ELSE << s[1] >> \o replace(Tail(s), old, new)

\* The obfuscations undone, in the order of the source.
undo_obfuscations(s) ==
    LET e1 == replace(s, << "[", "a", "t", "]" >>, << "@" >>)
        e2 == replace(e1, << "(", "a", "t", ")" >>, << "@" >>)
        e3 == replace(e2, << " ", "a", "t", " " >>, << "@" >>)
        e4 == replace(e3, << "[", "d", "o", "t", "]" >>, << "." >>)
        e5 == replace(e4, << "(", "d", "o", "t", ")" >>, << "." >>)
    IN  replace(e5, << " ", "d", "o", "t", " " >>, << "." >>)

StrayChars == { ")", ".", ",", ";", ":", ">", "]", "}", "'" }

normalize_email_chars(raw) ==
    LET e1 == strip_chars(raw, Whitespace)
        e2 == sub_mailto(e1)
        e3 == split_first(e2)
        e4 == undo_obfuscations(e3)
        e5 == strip_chars(replace(e4, << " " >>, <<>>), StrayChars)
    IN  lower_text(e5)

TextClean ==
    << "e", "d", "@", "a", ".", "c", "o", "m" >>

TextMailto ==
    << "m", "a", "i", "l", "t", "o", ":", "e", "d", "@", "a", ".", "c", "o", "m" >>

TextMailtoUpper ==
    << "M", "A", "I", "L", "T", "O", ":", "E", "d", "@", "A", ".", "c", "o", "m" >>

TextMailtoTwice ==
    << "m", "a", "i", "l", "t", "o", ":", "m", "a", "i", "l", "t", "o", ":", "e", "d", "@", "a", ".", "c", "o", "m" >>

TextObfuscated ==
    << "e", "d", "[", "a", "t", "]", "a", "[", "d", "o", "t", "]", "c", "o", "m" >>

TextObfuscatedParens ==
    << "e", "d", "(", "a", "t", ")", "a", "(", "d", "o", "t", ")", "c", "o", "m" >>

TextObfuscatedUpper ==
    << "J", "O", "H", "N", "[", "A", "T", "]", "E", "X", "A", "M", "P", "L", "E", "[", "D", "O", "T", "]", "C", "O", "M", " " >>

TextQuery ==
    << " ", "<", "e", "d", "@", "a", ".", "c", "o", "m", ">", "?", "s", "u", "b", "j", "e", "c", "t", "=", "x" >>

TextSpaced ==
    << "e", "d", " ", "a", "t", " ", "a", " ", "d", "o", "t", " ", "c", "o", "m" >>

TextGarbage ==
    << "?", "#", "|" >>

TextAlphabet == { "a", "A", "@", ".", " ", "?" }

\* The inputs: the texts above and every text of at most MaxText characters
\* of TextAlphabet.
TextInputs ==
    { TextClean,
      TextMailto,
      TextMailtoUpper,
      TextMailtoTwice,
      TextObfuscated,
      TextObfuscatedParens,
      TextObfuscatedUpper,
      TextQuery,
      TextSpaced,
      TextGarbage }
        \cup UNION { [1..n -> TextAlphabet] : n \in 0..MaxText }

text_init ==
    /\ text_in = <<>>
    /\ text_out = <<>>
    /\ text_n = 0

\* normalize_email(raw)
normalize_input ==
    /\ text_n = 0
    /\ text_out' = normalize_email_chars(text_in)
    /\ text_n' = 1
    /\ UNCHANGED << text_in, beside_text >>

\* normalize_email on the text it returned, as _run_email_verify does with the
\* addresses verify_email_advanced normalized.
normalize_output ==
    /\ text_n = 1
    /\ text_out' = normalize_email_chars(text_out)
    /\ text_n' = 2
    /\ UNCHANGED << text_in, beside_text >>

(***************************************************************************)
(* resolve_mx called from several worker threads on one verifier.  The     *)
(* cache is read under the lock, the name servers are asked outside it,    *)
(* and the answer is written under the lock again.                         *)
(***************************************************************************)
NCallers == 2

Callers == 1..NCallers

\* The domain arguments, as their callers spell them.
RawDomains == { << "mx2", "com" >>, << "MX2", "com" >>, << "nx", "com" >> }

\* (domain or "").lower().strip()
lower_domain(domain) == [k \in 1..Len(domain) |-> IF domain[k] = "MX2" THEN "mx2" ELSE domain[k]]

\* What a query can come back with: the records of the domain, or nothing
\* within the lifetime of the query.
DnsOutcomes == {"answer", "timeout"}

resolve_answer(domain, oc) ==
    IF oc = "answer" THEN resolve_mx_query(domain)
    ELSE [cached |-> TRUE, hosts |-> <<>>, note |-> "no_mx"]

resolver_init ==
    /\ r_pc = [c \in Callers |-> "idle"]
    /\ r_domain = [c \in Callers |-> <<>>]
    /\ r_res = [c \in Callers |-> NotCached]
    /\ r_seen = [c \in Callers |-> {}]
    /\ r_queried = [c \in Callers |-> FALSE]
    /\ returned = [d \in Domains |-> {}]
    /\ misses = [d \in Domains |-> 0]
    /\ dns_queries = [d \in Domains |-> 0]

\* "with self._mx_lock: if domain in self._mx_cache: return ..."
resolve_mx_read(c, raw) ==
    LET domain == lower_domain(raw)
    IN  /\ r_pc[c] \in {"idle", "done"}
        /\ r_domain' = [r_domain EXCEPT ![c] = domain]
        /\ r_seen' = [r_seen EXCEPT ![c] = returned[domain]]
        /\ r_queried' = [r_queried EXCEPT ![c] = FALSE]
        /\ IF mx_cache[domain].cached
           THEN /\ r_pc' = [r_pc EXCEPT ![c] = "done"]
                /\ r_res' = [r_res EXCEPT ![c] = mx_cache[domain]]
                /\ returned' = [returned EXCEPT ![domain] = @ \cup {mx_cache[domain]}]
                /\ UNCHANGED misses
           ELSE /\ r_pc' = [r_pc EXCEPT ![c] = "query"]
                /\ r_res' = [r_res EXCEPT ![c] = NotCached]
                /\ misses' = [misses EXCEPT ![domain] = @ + 1]
                /\ UNCHANGED returned
        /\ UNCHANGED << mx_cache, dns_queries, beside_resolver >>

\* The query answered from the cache when another caller has filled it.
resolve_mx_dns_deduplicated(c, oc) ==
    /\ r_pc[c] = "query"
    /\ r_pc' = [r_pc EXCEPT ![c] = "write"]
    /\ IF mx_cache[r_domain[c]].cached
       THEN /\ r_res' = [r_res EXCEPT ![c] = mx_cache[r_domain[c]]]
            /\ UNCHANGED << dns_queries, r_queried >>
       ELSE /\ r_res' = [r_res EXCEPT ![c] = resolve_answer(r_domain[c], oc)]
            /\ r_queried' = [r_queried EXCEPT ![c] = TRUE]
            /\ dns_queries' = [dns_queries EXCEPT ![r_domain[c]] = @ + 1]
    /\ UNCHANGED << r_domain, r_seen, returned, misses, mx_cache, beside_resolver >>

\* dns.resolver.resolve(domain, 'MX'), and 'A' when there is no MX answer.
resolve_mx_dns(c, oc) ==
    /\ r_pc[c] = "query"
    /\ r_pc' = [r_pc EXCEPT ![c] = "write"]
    /\ r_res' = [r_res EXCEPT ![c] = resolve_answer(r_domain[c], oc)]
    /\ r_queried' = [r_queried EXCEPT ![c] = TRUE]
    /\ dns_queries' = [dns_queries EXCEPT ![r_domain[c]] = @ + 1]
    /\ UNCHANGED << r_domain, r_seen, returned, misses, mx_cache, beside_resolver >>

\* "with self._mx_lock: self._mx_cache[domain] = res" and the return.
resolve_mx_write(c) ==
    /\ r_pc[c] = "write"
    /\ r_pc' = [r_pc EXCEPT ![c] = "done"]
    /\ mx_cache' = [mx_cache EXCEPT ![r_domain[c]] = r_res[c]]
    /\ returned' = [returned EXCEPT ![r_domain[c]] = @ \cup {r_res[c]}]
    /\ UNCHANGED << r_domain, r_res, r_seen, r_queried, misses, dns_queries, beside_resolver >>

(***************************************************************************)
(* BlogChecker.is_blog_page on what it reads of a page: a page is the set  *)
(* of the signals its URL, its text and its markup give.                   *)
(***************************************************************************)
MaxSignals == 2

Signals ==
    { "url_strong", "url_medium", "url_weak", "url_about",
      "ecommerce3", "landing", "doc", "words_under_300", "words_under_500",
      "article1", "article3", "class_specific", "class_generic_valid",
      "keyword1", "keyword3", "date_elements", "date_structured",
      "posts2", "posts3", "nav1", "nav2", "pagination",
      "og_article", "schema_article", "meta_keywords",
      "comment_system", "comment_pattern", "feed_link", "feed_nav" }

\* A blog-like article has 100 words or more, three of them 300.
RECURSIVE signal_sets(_)
signal_sets(n) ==
    IF n = 0 THEN { {} }
    ELSE LET fewer == signal_sets(n - 1)
         IN  fewer \cup { p \cup {s} : p \in fewer, s \in Signals }

Pages ==
    { p \in signal_sets(MaxSignals) :
        /\ ~({"article1", "article3"} \subseteq p)
        /\ ("article3" \in p) => ("words_under_300" \notin p)
        /\ ~({"words_under_300", "words_under_500"} \subseteq p) }

has(p, s) == IF s \in p THEN 1 ELSE 0

is_non_blog_page(p) ==
    \/ "ecommerce3" \in p
    \/ "landing" \in p /\ p \cap {"words_under_300", "words_under_500"} # {}
    \/ "doc" \in p
    \/ "url_about" \in p /\ "words_under_300" \in p

detect_publication_dates(p) ==
    Min(3 * has(p, "date_elements") + 2 * has(p, "date_structured"), 4)

detect_blog_listing(p) ==
    LET valid_posts == 2 * has(p, "posts2") + 3 * has(p, "posts3")
    IN  IF valid_posts >= 3 THEN 5 ELSE IF valid_posts >= 2 THEN 3 ELSE 0

analyze_blog_navigation(p) ==
    Min(has(p, "nav1") + 3 * has(p, "nav2") + 2 * has(p, "pagination"), 4)

analyze_blog_metadata(p) ==
    4 * has(p, "og_article") + 3 * has(p, "schema_article") + 2 * has(p, "meta_keywords")

detect_comment_system(p) ==
    Min(3 * has(p, "comment_system") + 2 * has(p, "comment_pattern"), 4)

detect_feeds(p) ==
    Min(2 * has(p, "feed_link") + has(p, "feed_nav"), 2)

\* The steps of is_blog_page after the exclusion rule, in order: the points
\* each adds and the indicator it appends.
blog_steps(p) ==
    LET blog_article_count == has(p, "article1") + 3 * has(p, "article3")
        strong_keyword_count == has(p, "keyword1") + 3 * has(p, "keyword3")
    IN  << << 8 * has(p, "url_strong"), "strong_url_pattern" >>,
           << 5 * has(p, "url_medium"), "medium_url_pattern" >>,
           << 2 * has(p, "url_weak"), "weak_url_pattern" >>,
           << Min(blog_article_count * 3, 8), "semantic_articles" >>,
           << 4 * has(p, "class_specific"), "specific_blog_classes" >>,
           << IF "class_specific" \in p THEN 0 ELSE 2 * has(p, "class_generic_valid"),
              "validated_generic_classes" >>,
           << Min(strong_keyword_count * 2, 6), "strong_blog_keywords" >>,
           << detect_publication_dates(p), "publication_dates" >>,
           << detect_blog_listing(p), "blog_listing" >>,
           << analyze_blog_navigation(p), "blog_navigation" >>,
           << analyze_blog_metadata(p), "blog_metadata" >>,
           << detect_comment_system(p), "comment_system" >>,
           << detect_feeds(p), "rss_feeds" >> >>

RECURSIVE blog_score(_)
blog_score(st) ==
    IF st = <<>> THEN 0
    ELSE (IF st[1][1] > 0 THEN st[1][1] ELSE 0) + blog_score(Tail(st))

RECURSIVE blog_indicators(_)
blog_indicators(st) ==
    IF st = <<>> THEN <<>>
    ELSE (IF st[1][1] > 0 THEN << st[1][2] >> ELSE <<>>) \o blog_indicators(Tail(st))

\* is_blog_page with the threshold it had before: 4.
is_blog_page_threshold_4(p) ==
    IF is_non_blog_page(p)
    THEN [is_blog |-> FALSE, score |-> -10, indicators |-> << "non_blog_detected" >>]
    ELSE [is_blog |-> blog_score(blog_steps(p)) >= 4,
          score |-> blog_score(blog_steps(p)),
          indicators |-> blog_indicators(blog_steps(p))]

is_blog_page(p) ==
    IF is_non_blog_page(p)
    THEN [is_blog |-> FALSE, score |-> -10, indicators |-> << "non_blog_detected" >>]
    ELSE [is_blog |-> blog_score(blog_steps(p)) >= 8,
          score |-> blog_score(blog_steps(p)),
          indicators |-> blog_indicators(blog_steps(p))]

NotClassified == [is_blog |-> FALSE, score |-> 0, indicators |-> <<>>]

blog_init ==
    /\ page = {}
    /\ classified = NotClassified
    /\ page_pc = "idle"

\* is_blog_page(soup, url)
classify_page ==
    /\ page_pc = "idle"
    /\ classified' = is_blog_page(page)
    /\ page_pc' = "classified"
    /\ UNCHANGED << page, beside_blog >>

(***************************************************************************)
(* EmailScraper.scrape_emails from the addresses its pages gave to the     *)
(* result it returns: ranking, the cut to max_emails_per_site and the      *)
(* removal of duplicates that ends the call.                               *)
(***************************************************************************)
MaxUrls == 2
max_emails_per_site == 3

ScrapedSites == {"a.com", "b.com"}

\* The addresses pages can give, in the order of Python's string comparison.
alphabetical ==
    << [local |-> "editor", host |-> "a.com"],
       [local |-> "info", host |-> "a.com"],
       [local |-> "jane", host |-> "a.com"],
       [local |-> "jane", host |-> "gmail.com"],
       [local |-> "joe", host |-> "a.com"],
       [local |-> "press", host |-> "b.com"] >>

ScrapedPool == Range(alphabetical)

NoEmail == [local |-> "", host |-> ""]

string_position(e) == CHOOSE i \in DOMAIN alphabetical : alphabetical[i] = e

DISPOSABLE_HINTS ==
    { "gmail.com", "yahoo.com", "outlook.com", "hotmail.com", "aol.com", "icloud.com",
      "proton.me", "protonmail.com", "live.com", "msn.com", "yandex.com" }

EDITORIAL_PREFIXES ==
    << "submissions", "submission", "submit", "contributors", "contributor", "contribute",
       "editor", "editors", "editorial", "letters", "opinion", "opeds", "opiniondesk",
       "pitch", "pitches", "tips", "newsroom", "press", "media", "pr", "communications",
       "guest", "guestpost", "guest-post", "write", "writers", "writing", "content", "blog" >>

\* 45 + weight for the prefix the address starts with, the last prefix of the
\* list weighing 1.
editorial_prefix_score(e) ==
    IF \E i \in DOMAIN EDITORIAL_PREFIXES : EDITORIAL_PREFIXES[i] = e.local
    THEN LET i == CHOOSE i \in DOMAIN EDITORIAL_PREFIXES : EDITORIAL_PREFIXES[i] = e.local
         IN  45 + (Len(EDITORIAL_PREFIXES) - i + 1)
    ELSE 0

\* _classify_role on the local parts of the pool: the first prefix that the
\* local part contains, else the general contact words, else unknown.
classify_role(e) ==
    CASE e.local = "editor" -> "editor"
      [] e.local = "press" -> "press"
      [] e.local = "info" -> "general"
      [] OTHER -> "unknown"

\* email_host.endswith(site_host), on the hosts of the pool.
is_company_domain(e, site_host) == e.host = site_host

is_freemail(e) == e.host \in DISPOSABLE_HINTS

rank_score(e, site_host, context_score) ==
    LET role == classify_role(e)
    IN  (IF is_company_domain(e, site_host) THEN 100 ELSE 0)
        + editorial_prefix_score(e)
        + (IF role \notin {"unknown", "general"} THEN 10 ELSE 0)
        + (IF is_freemail(e)
           THEN (IF role \notin {"unknown", "general"} THEN -5 ELSE -40)
           ELSE 0)
        + (IF role = "general" THEN 5 ELSE 0)
        + context_score

\* key=lambda x: (-x[1], x[0])
ranks_before(x, y) ==
    \/ x.rank_score > y.rank_score
    \/ x.rank_score = y.rank_score /\ string_position(x.email) < string_position(y.email)

RECURSIVE sort_ranked(_)
sort_ranked(S) ==
    IF S = {} THEN <<>>
    ELSE LET first == CHOOSE x \in S : \A y \in S \ {x} : ranks_before(x, y)
         IN  << first >> \o sort_ranked(S \ {first})

rank_emails_for_guestposting(emails, site_host, context_score) ==
    sort_ranked({ [email |-> e, rank_score |-> rank_score(e, site_host, context_score),
                   role |-> classify_role(e)] : e \in emails })

\* _verify_email_smtp_integrated answers from smtp_cache the second time an
\* address is asked: one answer per address, here by what its host does.
verify_email_smtp_integrated(e) ==
    CASE e.host = "a.com" -> 85
      [] e.host = "gmail.com" -> 70
      [] OTHER -> 40

\* What one url adds to results['verified_emails'].
verified_batch(url, all_emails, context_score, verify_emails) ==
    IF all_emails # {}
    THEN LET ranked_emails == SubSeq(rank_emails_for_guestposting(all_emails, url, context_score),
                                     1, Min(max_emails_per_site, Cardinality(all_emails)))
         IN  [i \in DOMAIN ranked_emails |->
                [email |-> ranked_emails[i].email, url |-> url,
                 role |-> ranked_emails[i].role,
                 rank_score |-> ranked_emails[i].rank_score,
                 quality |-> IF verify_emails
                             THEN verify_email_smtp_integrated(ranked_emails[i].email)
                             ELSE 70]]
    ELSE << [email |-> NoEmail, url |-> url, role |-> "none", rank_score |-> 0, quality |-> 0] >>

RECURSIVE all_batches(_, _, _, _)
all_batches(urls, emails_of, context_of, verify_emails) ==
    IF urls = <<>> THEN <<>>
    ELSE verified_batch(Head(urls), emails_of[Head(urls)], context_of[Head(urls)], verify_emails)
         \o all_batches(Tail(urls), emails_of, context_of, verify_emails)

\* The dict seen_emails after the loop over verified_emails, as the list of
\* its values: an address keeps the place of its first entry and the entry
\* of the highest quality, the earlier one on equal quality.
RECURSIVE seen_emails(_, _)
seen_emails(seen, items) ==
    IF items = <<>> THEN seen
    ELSE LET entry == Head(items)
             at == { i \in DOMAIN seen : seen[i].email = entry.email }
         IN  IF at = {}
             THEN seen_emails(Append(seen, entry), Tail(items))
             ELSE LET i == CHOOSE i \in at : TRUE
                  IN  IF entry.quality > seen[i].quality
                      THEN seen_emails([seen EXCEPT ![i] = entry], Tail(items))
                      ELSE seen_emails(seen, Tail(items))

scrape_emails_result(urls, emails_of, context_of, verify_emails) ==
    seen_emails(<<>>, all_batches(urls, emails_of, context_of, verify_emails))

UrlLists == UNION { [1..n -> ScrapedSites] : n \in 1..MaxUrls }

rank_init ==
    /\ extracted = [s \in ScrapedSites |-> {}]
    /\ context = [s \in ScrapedSites |-> 0]
    /\ scrape_urls = <<>>
    /\ verified_emails = <<>>
    /\ rank_pc = "idle"

\* scrape_emails(urls, verify_emails)
scrape_emails(urls, verify_emails) ==
    /\ rank_pc = "idle"
    /\ scrape_urls' = urls
    /\ verified_emails' = scrape_emails_result(urls, extracted, context, verify_emails)
    /\ rank_pc' = "returned"
    /\ UNCHANGED << extracted, context, beside_rank >>

\* The caller has taken the result.
scrape_emails_taken ==
    /\ rank_pc = "returned"
    /\ scrape_urls' = <<>>
    /\ verified_emails' = <<>>
    /\ rank_pc' = "idle"
    /\ UNCHANGED << extracted, context, beside_rank >>

\* No _persist_chunk call has been made.
NoCall == [step |-> "", chunk |-> <<>>, upload_id |-> 0]

commit_init ==
    /\ commit_pc = "idle"
    /\ commit_call = NoCall
    /\ commit_attempt = 0
    /\ retry_delay = 1
    /\ slept = <<>>
    /\ raised = <<>>
    /\ store_before = <<>>
    /\ commit_calls = 0

(***************************************************************************)
(* The counters of a run taken on their own: start_pipeline writes         *)
(* total_items, and the stage function writes processed_items and progress *)
(* each time it counts a result.  A target is its primary address and the  *)
(* addresses scraped for it.                                               *)
(***************************************************************************)
MaxTargets == 2

CountAddresses ==
    { [local |-> "ed", host |-> << "a", "com" >>],
      [local |-> "ED", host |-> << "a", "com" >>],
      [local |-> "ed", host |-> << "mx2", "com" >>] }

CountTargets ==
    { [email |-> e, scraped_emails |-> s] :
        e \in { NoAddress, [local |-> "ed", host |-> << "a", "com" >>],
                [local |-> "ED", host |-> << "a", "com" >>] },
        s \in SUBSET CountAddresses }

CountData == UNION { [1..n -> CountTargets] : n \in 0..MaxTargets }

\* "unique_emails_set": the normalized scraped and primary addresses of the data.
unique_emails(data) ==
    { normalize_email(raw) :
        raw \in UNION { data[i].scraped_emails \cup
                          (IF data[i].email # NoAddress THEN {data[i].email} ELSE {}) :
                        i \in DOMAIN data } }

\* "int(n / d * 100)", the quotient truncated.
percent(n, d) == (n * 100) \div d

\* The tasks a stage function creates: one per target, or one per distinct address.
stage_tasks(step, data) ==
    IF step = "email_verify"
    THEN unique_emails(data)
    ELSE { [local |-> "", host |-> << i >>] : i \in DOMAIN data }

\* start_pipeline's entry: 'total_items': len(normalized_data), 'processed_items': 0.
start_entry(data) ==
    [total_items |-> Len(data), processed_items |-> 0, progress |-> 0]

\* No run is counting.
count_init ==
    /\ stage_data = <<>>
    /\ count_step = "blog_check"
    /\ counters = start_entry(<<>>)
    /\ completed = 0
    /\ uncollected = {}

\* process_item of _run_blog_check / _run_email_scrape under progress_lock.
count_processed(t) ==
    /\ count_step \in {"blog_check", "email_scrape"}
    /\ t \in uncollected
    /\ uncollected' = uncollected \ {t}
    /\ completed' = completed + 1
    /\ counters' = [counters EXCEPT
                       !.processed_items = completed + 1,
                       !.progress = percent(completed + 1,
                                            IF Len(stage_data) = 0 THEN 1 ELSE Len(stage_data))]
    /\ UNCHANGED << stage_data, count_step, beside_count >>

\* _run_email_verify counts the result of one address of a batch.
count_verified(email) ==
    /\ count_step = "email_verify"
    /\ email \in uncollected
    /\ uncollected' = uncollected \ {email}
    /\ completed' = completed + 1
    /\ counters' = [counters EXCEPT
                       !.processed_items = completed + 1,
                       !.progress = LET total_emails == Cardinality(unique_emails(stage_data))
                                    IN  IF total_emails # 0
                                        THEN percent(completed + 1, total_emails)
                                        ELSE 100]
    /\ UNCHANGED << stage_data, count_step, beside_count >>

\* "except asyncio.TimeoutError: ... continue": a result is never counted.
count_lost(t) ==
    /\ t \in uncollected
    /\ uncollected' = uncollected \ {t}
    /\ UNCHANGED << stage_data, count_step, counters, completed, beside_count >>

(***************************************************************************)
(* The blog semaphore of the one ProcessingPipeline, shared by the runs it    *)
(* handles.  A semaphore object is named by the order of its creation;     *)
(* each _run_blog_check keeps the object it found or created in its local  *)
(* "pool", and its item tasks take and give back slots of that object.     *)
(***************************************************************************)
NRuns == 2
MaxPoolItems == 2

Runs == 1..NRuns
PoolItems == 1..MaxPoolItems

\* The item tasks inside "async with pool" of semaphore object s.
slots_held(s) ==
    { << r, i >> \in Runs \X PoolItems : pool[r] = s /\ slot[r][i] = "holding" }

\* The item tasks of all runs inside the "async with pool" of the blog stage.
blog_slot_holders ==
    { << r, i >> \in Runs \X PoolItems : slot[r][i] = "holding" }

\* ProcessingPipeline.__init__: no semaphore, no run.
pool_init ==
    /\ blog_pool_semaphore = 0
    /\ pool = [r \in Runs |-> 0]
    /\ slot = [r \in Runs |-> [i \in PoolItems |-> "none"]]
    /\ run_status = [r \in Runs |-> "none"]
    /\ semaphores = 0

\* start_pipeline up to the call of _run_blog_check, and its entry: the
\* semaphore is created if the manager holds none, one task per target is created.
run_blog_check(r, n) ==
    /\ run_status[r] = "none"
    /\ run_status' = [run_status EXCEPT ![r] = "running"]
    /\ IF blog_pool_semaphore = 0
       THEN /\ semaphores' = semaphores + 1
            /\ blog_pool_semaphore' = semaphores + 1
       ELSE UNCHANGED << semaphores, blog_pool_semaphore >>
    /\ pool' = [pool EXCEPT ![r] = blog_pool_semaphore']
    /\ slot' = [slot EXCEPT ![r] = [i \in PoolItems |-> IF i <= n THEN "pending" ELSE "none"]]
    /\ UNCHANGED beside_pool

\* "async with pool": the task takes a slot of its run's semaphore object.
pool_acquire(r, i) ==
    /\ slot[r][i] = "pending"
    /\ Cardinality(slots_held(pool[r])) < blog_concurrency
    /\ slot' = [slot EXCEPT ![r][i] = "holding"]
    /\ UNCHANGED << blog_pool_semaphore, pool, run_status, semaphores, beside_pool >>

\* The end of the "async with pool" block.
pool_release(r, i) ==
    /\ slot[r][i] = "holding"
    /\ slot' = [slot EXCEPT ![r][i] = "done"]
    /\ UNCHANGED << blog_pool_semaphore, pool, run_status, semaphores, beside_pool >>

\* wait_for(run_pipeline_steps) returned for a run that is still running.
pool_run_completed(r) ==
    /\ run_status[r] = "running"
    /\ \A i \in PoolItems : slot[r][i] \in {"none", "done"}
    /\ run_status' = [run_status EXCEPT ![r] = "completed"]
    /\ UNCHANGED << blog_pool_semaphore, pool, slot, semaphores, beside_pool >>

\* POST /api/pipeline/force-stop/{process_id}: the status is set and the
\* manager's semaphores are set to None; no task is cancelled.
force_stop(r) ==
    /\ run_status[r] # "none"
    /\ run_status' = [run_status EXCEPT ![r] = "force_stopped"]
    /\ blog_pool_semaphore' = 0
    /\ UNCHANGED << pool, slot, semaphores, beside_pool >>

\* No chunk is being keyed.
key_init ==
    /\ websites = << <<>>, <<>> >>
    /\ domain_keys = << <<>>, <<>> >>
    /\ key_pc = "idle"

(***************************************************************************)
(* The progress websockets of one process id.  A connection is open from   *)
(* the accept of websocket_endpoint until its receive_text raises          *)
(* WebSocketDisconnect; a broken connection is one whose next send_text    *)
(* raises.                                                                 *)
(***************************************************************************)
NConnections == 2
MaxEvents == 2

Connections == 1..NConnections

\* ProcessingPipeline.__init__: no connection is registered.
socket_init ==
    /\ websocket_connections = 0
    /\ socket_state = [c \in Connections |-> "none"]
    /\ received = [c \in Connections |-> 0]
    /\ progress_sent = 0

\* remove_websocket(process_id): the key is deleted, whoever registered it.
remove_websocket == 0

\* websocket_endpoint: accept, then add_websocket(process_id, websocket).
websocket_endpoint(c) ==
    /\ socket_state[c] = "none"
    /\ socket_state' = [socket_state EXCEPT ![c] = "open"]
    /\ websocket_connections' = c
    /\ UNCHANGED << received, progress_sent, beside_socket >>

\* The peer goes away without a close frame reaching receive_text yet.
connection_breaks(c) ==
    /\ socket_state[c] = "open"
    /\ socket_state' = [socket_state EXCEPT ![c] = "broken"]
    /\ UNCHANGED << websocket_connections, received, progress_sent, beside_socket >>

\* "except WebSocketDisconnect: await pipeline_manager.remove_websocket(process_id)".
websocket_disconnect(c) ==
    /\ socket_state[c] \in {"open", "broken"}
    /\ socket_state' = [socket_state EXCEPT ![c] = "closed"]
    /\ websocket_connections' = remove_websocket
    /\ UNCHANGED << received, progress_sent, beside_socket >>

\* send_progress(process_id, message): send_text on the registered connection,
\* which is removed when the send raises.
send_progress ==
    /\ progress_sent < MaxEvents
    /\ progress_sent' = progress_sent + 1
    /\ IF websocket_connections = 0
       THEN UNCHANGED << websocket_connections, socket_state, received >>
       ELSE IF socket_state[websocket_connections] = "open"
       THEN /\ received' = [received EXCEPT ![websocket_connections] = @ + 1]
            /\ UNCHANGED << websocket_connections, socket_state >>
       ELSE /\ websocket_connections' = remove_websocket
            /\ socket_state' = [socket_state EXCEPT ![websocket_connections] =
                                   IF @ = "broken" THEN "failed" ELSE @]
            /\ UNCHANGED received
    /\ UNCHANGED beside_socket

MaxSecondCalls == 1

\* No second call has been made.
restart_init == second_calls = 0

\* No run has been started.
pipeline_init ==
    /\ status = "none"
    /\ steps = <<>>
    /\ step_index = 1
    /\ current_step = ""
    /\ pc = "idle"
    /\ current_data = <<>>
    /\ task = [i \in Items |-> "none"]
    /\ item = [i \in Items |-> NewItem]
    /\ smtp_in_flight = {}
    /\ batch_start = 1
    /\ todo = <<>>
    /\ all_results = <<>>
    /\ results_chunk = <<>>
    /\ verified_results = [i \in Items |-> NoVerify]
    /\ results = [s \in StepNames |-> <<>>]
    /\ persisted = {}
    /\ data_json = <<>>
    /\ processed_items = 0
    /\ pool_set = [s \in StepNames |-> FALSE]
    /\ events = {}
    /\ stop_unstarted = {}
    /\ requested_steps = <<>>
    /\ error = ""

\* No call has been made on the datastore on its own.
NoOp == [step |-> "", last |-> <<>>, upload_id |-> 0]

store_init ==
    /\ store = <<>>
    /\ store_op = NoOp

Init == pipeline_init /\ restart_init /\ socket_init /\ key_init /\ pool_init /\ count_init /\ commit_init /\ rank_init /\ blog_init /\ resolver_init /\ text_init /\ probe_init /\ store_init /\ verifier_init

\* Positions of the orchestrator inside a stage function.
InStage == {"gather", "persist", "persist_tail"}

Unfinished == {"pending", "running"}

\* The targets whose tasks form the batch at position b of the task list.
BatchTasks(b) ==
    { current_data[k] : k \in b..Min(b + batch_size(current_step) - 1, Len(current_data)) }

(***************************************************************************)
(* start_pipeline is handed a steps value that cannot be iterated (the     *)
(* endpoint passes on whatever truthy JSON value the request holds): the   *)
(* loop over steps raises before the try block and before the run has an   *)
(* entry in active_processes, and the exception ends the task.             *)
(***************************************************************************)
start_pipeline_raises ==
    /\ status = "none"
    /\ pc = "idle"
    /\ pc' = "raised"
    /\ UNCHANGED << status, steps, step_index, current_step, current_data, task, item,
                    smtp_in_flight, batch_start, todo, all_results, results_chunk,
                    verified_results, results, persisted, data_json,
                    processed_items, pool_set, events, stop_unstarted,
                    requested_steps, error, aux_vars >>

(***************************************************************************)
(* start_pipeline up to the first await inside run_pipeline_steps.         *)
(***************************************************************************)
start_pipeline(requested) ==
    /\ status = "none"
    /\ pc = "idle"
    /\ status' = "running"
    /\ requested_steps' = requested
    /\ error' = ""
    /\ steps' = OrderedSteps(requested)
    /\ step_index' = 1
    /\ current_step' = ""
    /\ current_data' = [k \in 1..NItems |-> k]
    /\ processed_items' = 0
    /\ results' = [s \in StepNames |-> <<>>]
    /\ events' = events \cup {<<"started", "", 0>>}
    /\ pc' = "loop"
    /\ UNCHANGED << task, item, smtp_in_flight, batch_start, todo, all_results,
                    results_chunk, verified_results, persisted, data_json,
                    pool_set, stop_unstarted, aux_vars >>

\* run_pipeline_steps with the stop check at the loop head left out.
run_pipeline_steps_unchecked ==
    /\ pc = "loop"
    /\ IF step_index > Len(steps)
       THEN /\ pc' = "returned"
            /\ UNCHANGED events
       ELSE /\ events' = events \cup {<<"step_start", steps[step_index], step_index>>}
            /\ pc' = "enter"
    /\ UNCHANGED << status, steps, step_index, current_step, current_data, task, item, smtp_in_flight,
                    batch_start, todo, all_results, results_chunk, verified_results,
                    results, persisted, data_json, processed_items, pool_set,
                    stop_unstarted,
                    requested_steps, error, aux_vars >>

(***************************************************************************)
(* The loop head of run_pipeline_steps: the stop check, then the send of   *)
(* step_start, which the coroutine awaits before it enters the stage.      *)
(***************************************************************************)
run_pipeline_steps ==
    /\ pc = "loop"
    /\ IF step_index > Len(steps) \/ status # "running"
       THEN /\ pc' = "returned"
            /\ UNCHANGED events
       ELSE /\ events' = events \cup {<<"step_start", steps[step_index], step_index>>}
            /\ pc' = "enter"
    /\ UNCHANGED << status, steps, step_index, current_step, current_data, task, item, smtp_in_flight,
                    batch_start, todo, all_results, results_chunk, verified_results,
                    results, persisted, data_json, processed_items, pool_set,
                    stop_unstarted,
                    requested_steps, error, aux_vars >>

\* The stage returns but run_pipeline_steps keeps its old current_data.
stage_return_not_handed_over(step, ar) ==
    /\ results' = [results EXCEPT ![step] = ar]
    /\ current_data' = current_data
    /\ batch_start' = 1
    /\ pc' = "persist_step"

(***************************************************************************)
(* The end of a stage function: "results[step] = all_results; return", and *)
(* "current_data = await self._run_...(...)" in run_pipeline_steps.         *)
(***************************************************************************)
stage_return(step, ar) ==
    /\ results' = [results EXCEPT ![step] = ar]
    /\ current_data' = ar
    /\ batch_start' = 1
    /\ pc' = "persist_step"

\* After the batch loop: "if results_chunk:" persists the final partial chunk.
end_of_loop(ar, ch) ==
    IF ch # <<>>
    THEN /\ pc' = "persist_tail"
         /\ batch_start' = Len(current_data) + 1
         /\ UNCHANGED << results, current_data >>
    ELSE stage_return(current_step, ar)

\* "for i in range(0, len(tasks), batch_size)": on to the next batch, if any.
next_batch(ar, ch) ==
    LET nb == batch_start + batch_size(current_step)
    IN  IF nb <= Len(current_data)
        THEN /\ pc' = "gather"
             /\ batch_start' = nb
             /\ UNCHANGED << results, current_data >>
        ELSE end_of_loop(ar, ch)

(***************************************************************************)
(* The result loop of a stage, run up to its next await: results td are    *)
(* appended to all_results (ar) and to the chunk (ch) until the chunk      *)
(* holds chunk_size results and is handed to _persist_chunk, or td is      *)
(* exhausted.  In _run_email_verify the loop runs over the targets after   *)
(* the last batch and merges the verification (vr) into each target.       *)
(***************************************************************************)
collect(td, ar, ch, vr) ==
    LET k == Min(Len(td), chunk_size(current_step) - Len(ch))
        taken == SubSeq(td, 1, k)
        ar2 == ar \o taken
        ch2 == ch \o taken
        td2 == SubSeq(td, k + 1, Len(td))
        apply == current_step = "email_verify"
    IN  /\ all_results' = ar2
        /\ results_chunk' = ch2
        /\ todo' = td2
        /\ item' = IF apply
                   THEN [i \in Items |->
                            IF i \in Range(taken) /\ vr[i].present
                            THEN [item[i] EXCEPT !.email_verify = vr[i]]
                            ELSE item[i]]
                   ELSE item
        /\ IF Len(ch2) >= chunk_size(current_step)
           THEN /\ pc' = "persist"
                /\ batch_start' = IF apply THEN Len(current_data) + 1 ELSE batch_start
                /\ UNCHANGED << results, current_data >>
           ELSE IF apply THEN end_of_loop(ar2, ch2) ELSE next_batch(ar2, ch2)

\* _run_email_verify after a batch: the next batch, or the loop over the targets.
after_verify_batch(vr) ==
    IF batch_start + verify_batch_size <= Len(current_data)
    THEN /\ pc' = "gather"
         /\ batch_start' = batch_start + verify_batch_size
         /\ UNCHANGED << all_results, results_chunk, todo, item, results, current_data >>
    ELSE collect(current_data, <<>>, <<>>, vr)

(***************************************************************************)
(* Entry of _run_blog_check / _run_email_scrape: the semaphore is created  *)
(* if the manager holds none, one task per target is created, and the      *)
(* function awaits the first batch.                                        *)
(***************************************************************************)
run_stage(step) ==
    /\ pc = "enter"
    /\ steps[step_index] = step
    /\ step \in {"blog_check", "email_scrape"}
    /\ current_step' = step
    /\ pool_set' = [pool_set EXCEPT ![step] = TRUE]
    /\ task' = [i \in Items |-> IF i \in Range(current_data) THEN "pending" ELSE "none"]
    /\ all_results' = <<>>
    /\ results_chunk' = <<>>
    /\ todo' = <<>>
    /\ IF current_data = <<>>
       THEN stage_return(step, <<>>)
       ELSE /\ pc' = "gather"
            /\ batch_start' = 1
            /\ UNCHANGED << results, current_data >>
    /\ UNCHANGED << status, steps, step_index, item, smtp_in_flight,
                    verified_results, persisted, data_json, processed_items,
                    events, stop_unstarted,
                    requested_steps, error, aux_vars >>

\* Entry of _run_email_verify: returns the data at once when it holds no address.
run_email_verify ==
    /\ pc = "enter"
    /\ steps[step_index] = "email_verify"
    /\ current_step' = "email_verify"
    /\ verified_results' = [e \in Items |-> NoVerify]
    /\ all_results' = <<>>
    /\ results_chunk' = <<>>
    /\ todo' = <<>>
    /\ IF current_data = <<>>
       THEN /\ stage_return("email_verify", current_data)
            /\ UNCHANGED << pool_set, task >>
       ELSE /\ pool_set' = [pool_set EXCEPT !["email_verify"] = TRUE]
            /\ task' = [e \in Items |->
                           IF e \in Range(current_data) THEN "pending" ELSE "none"]
            /\ pc' = "gather"
            /\ batch_start' = 1
            /\ UNCHANGED << results, current_data >>
    /\ UNCHANGED << status, steps, step_index, item, smtp_in_flight,
                    persisted, data_json, processed_items, events, stop_unstarted,
                    requested_steps, error, aux_vars >>

\* An import or constructor at the entry of a stage raises and the exception
\* leaves run_pipeline_steps: "except Exception as e" of start_pipeline.
stage_setup_raises ==
    /\ pc = "enter"
    /\ current_step' = steps[step_index]
    /\ status' = "failed"
    /\ error' = "exception"
    /\ events' = events \cup {<<"error", "", 0>>}
    /\ pc' = "raised"
    /\ UNCHANGED << steps, step_index, current_data, task, item,
                    smtp_in_flight, batch_start, todo, all_results, results_chunk,
                    verified_results, results, persisted, data_json,
                    processed_items, pool_set, stop_unstarted,
                    requested_steps, aux_vars >>

(***************************************************************************)
(* Item tasks.  A task is pending until it holds a slot of the stage       *)
(* semaphore ("async with pool"); the semaphore wakes its waiters in the   *)
(* order the tasks were created.  With the slot it hands the blocking call *)
(* to a worker thread (asyncio.to_thread) under asyncio.wait_for.          *)
(***************************************************************************)
Holders == { i \in Items : task[i] = "running" }

\* A created task runs to its first await in the loop iteration after its
\* creation, and a released slot wakes the first waiter at once: a task is
\* pending only while every slot is held.  slot_waiting is the transient state
\* in between, which no awaited call or timer outlasts.
slot_waiting ==
    \E i \in Items : task[i] = "pending" /\ Cardinality(Holders) < concurrency(current_step)

acquire_pool(i) ==
    /\ task[i] = "pending"
    /\ \A j \in Items : task[j] = "pending" => i <= j
    /\ Cardinality(Holders) < concurrency(current_step)
    /\ task' = [task EXCEPT ![i] = "running"]
    /\ smtp_in_flight' = IF current_step = "email_verify"
                         THEN smtp_in_flight \cup {i} ELSE smtp_in_flight
    /\ UNCHANGED << status, steps, step_index, current_step, pc, current_data, item,
                    batch_start, todo, all_results, results_chunk, verified_results,
                    results, persisted, data_json, processed_items, pool_set,
                    events, stop_unstarted,
                    requested_steps, error, aux_vars >>

\* wait_for cancels only the awaiting future: on a timeout the worker thread runs on.
smtp_in_flight_after(e, oc) ==
    IF oc = "timeout" THEN smtp_in_flight ELSE smtp_in_flight \ {e}

\* process_item without its except clauses: a timeout or an exception of the
\* awaited call leaves the target without a placeholder.
process_item_uncaught(i, oc) ==
    /\ current_step \in {"blog_check", "email_scrape"}
    /\ task[i] = "running"
    /\ ~slot_waiting
    /\ task' = [task EXCEPT ![i] = oc]
    /\ item' = IF oc # "ok" THEN item
               ELSE IF current_step = "blog_check"
               THEN [item EXCEPT ![i].blog_check = blog_result(i, oc)]
               ELSE [item EXCEPT ![i].email_scrape = scrape_result(i, oc)]
    /\ processed_items' = Cardinality({ j \in Items : task'[j] \in Outcomes })
    /\ UNCHANGED << status, steps, step_index, current_step, pc, current_data,
                    smtp_in_flight, batch_start, todo, all_results, results_chunk,
                    verified_results, results, persisted, data_json, pool_set,
                    events, stop_unstarted,
                    requested_steps, error, aux_vars >>

(***************************************************************************)
(* process_item of _run_blog_check / _run_email_scrape from the outcome of *)
(* the awaited call to its return: the result or the placeholder is        *)
(* written onto the target, the slot is released, the counter advanced.    *)
(***************************************************************************)
process_item(i, oc) ==
    /\ current_step \in {"blog_check", "email_scrape"}
    /\ task[i] = "running"
    /\ ~slot_waiting
    /\ task' = [task EXCEPT ![i] = oc]
    /\ item' = IF current_step = "blog_check"
               THEN [item EXCEPT ![i].blog_check = blog_result(i, oc)]
               ELSE [item EXCEPT ![i].email_scrape = scrape_result(i, oc)]
    /\ processed_items' = Cardinality({ j \in Items : task'[j] \in Outcomes })
    /\ UNCHANGED << status, steps, step_index, current_step, pc, current_data, smtp_in_flight,
                    batch_start, todo, all_results, results_chunk, verified_results,
                    results, persisted, data_json, pool_set, events, stop_unstarted,
                    requested_steps, error, aux_vars >>

\* verify_email of _run_email_verify: returns (email, result) to the gather.
verify_email(e, oc) ==
    /\ current_step = "email_verify"
    /\ task[e] = "running"
    /\ ~slot_waiting
    /\ task' = [task EXCEPT ![e] = oc]
    /\ smtp_in_flight' = smtp_in_flight_after(e, oc)
    /\ UNCHANGED << status, steps, step_index, current_step, pc, current_data, item,
                    batch_start, todo, all_results, results_chunk, verified_results,
                    results, persisted, data_json, processed_items, pool_set,
                    events, stop_unstarted,
                    requested_steps, error, aux_vars >>

\* A worker thread whose awaiting task timed out or was cancelled ends by itself.
thread_exit(e) ==
    /\ e \in smtp_in_flight
    /\ task[e] # "running"
    /\ smtp_in_flight' = smtp_in_flight \ {e}
    /\ UNCHANGED << status, steps, step_index, current_step, pc, current_data, task,
                    item, batch_start, todo, all_results, results_chunk,
                    verified_results, results, persisted, data_json,
                    processed_items, pool_set, events, stop_unstarted,
                    requested_steps, error, aux_vars >>

(***************************************************************************)
(* The batch loop: "await asyncio.wait_for(asyncio.gather(batch), timeout)".  *)
(***************************************************************************)
BatchSeq ==
    SubSeq(current_data, batch_start,
           Min(batch_start + batch_size(current_step) - 1, Len(current_data)))

\* The gather of a blog / scrape batch returns: every task of the batch is done.
gather_batch ==
    /\ pc = "gather"
    /\ ~slot_waiting
    /\ current_step \in {"blog_check", "email_scrape"}
    /\ \A i \in BatchTasks(batch_start) : task[i] \in Outcomes
    /\ collect(BatchSeq, all_results, results_chunk, verified_results)
    /\ UNCHANGED << status, steps, step_index, current_step, task, smtp_in_flight,
                    verified_results, persisted, data_json, processed_items,
                    pool_set, events, stop_unstarted,
                    requested_steps, error, aux_vars >>

\* The gather of a verify batch returns: results are stored by address.
gather_verify_batch ==
    /\ pc = "gather"
    /\ ~slot_waiting
    /\ current_step = "email_verify"
    /\ \A e \in BatchTasks(batch_start) : task[e] \in Outcomes
    /\ LET vr == [e \in Items |->
                     IF e \in BatchTasks(batch_start)
                     THEN verify_result(e, task[e])
                     ELSE verified_results[e]]
       IN  /\ verified_results' = vr
           /\ processed_items' = Cardinality({ e \in Items : vr[e].present })
           /\ after_verify_batch(vr)
    /\ UNCHANGED << status, steps, step_index, current_step, task, smtp_in_flight,
                    persisted, data_json, pool_set, events, stop_unstarted,
                    requested_steps, error, aux_vars >>

(***************************************************************************)
(* "except asyncio.TimeoutError: ... continue": wait_for cancels the       *)
(* gather, which cancels the tasks of the batch that are not done; the     *)
(* results of the batch are lost and the loop goes on.                     *)
(***************************************************************************)
cancel_batch ==
    [i \in Items |->
        IF i \in BatchTasks(batch_start) /\ task[i] \in Unfinished
        THEN "cancelled" ELSE task[i]]

\* A batch timeout that leaves the batch loop ("break") instead of going on.
batch_timeout_breaks ==
    /\ pc = "gather"
    /\ ~slot_waiting
    /\ \E i \in BatchTasks(batch_start) : task[i] \in Unfinished
    /\ task' = cancel_batch
    /\ events' = events \cup {<<"batch_timeout", current_step, batch_start>>}
    /\ IF current_step = "email_verify"
       THEN collect(current_data, <<>>, <<>>, verified_results)
       ELSE /\ end_of_loop(all_results, results_chunk)
            /\ UNCHANGED << all_results, results_chunk, todo, item >>
    /\ UNCHANGED << status, steps, step_index, current_step, smtp_in_flight,
                    verified_results, persisted, data_json, processed_items,
                    pool_set, stop_unstarted,
                    requested_steps, error, aux_vars >>

batch_timeout ==
    /\ pc = "gather"
    /\ ~slot_waiting
    /\ \E i \in BatchTasks(batch_start) : task[i] \in Unfinished
    /\ task' = cancel_batch
    /\ events' = events \cup {<<"batch_timeout", current_step, batch_start>>}
    /\ IF current_step = "email_verify"
       THEN after_verify_batch(verified_results)
       ELSE /\ next_batch(all_results, results_chunk)
            /\ UNCHANGED << all_results, results_chunk, todo, item >>
    /\ UNCHANGED << status, steps, step_index, current_step, smtp_in_flight,
                    verified_results, persisted, data_json, processed_items,
                    pool_set, stop_unstarted,
                    requested_steps, error, aux_vars >>

(***************************************************************************)
(* _persist_chunk, awaited in a worker thread.                             *)
(***************************************************************************)
committed(ch) == persisted \cup { <<current_step, ch[k]>> : k \in 1..Len(ch) }

\* A full chunk inside the result loop; the loop then goes on.
persist_chunk ==
    /\ pc = "persist"
    /\ ~slot_waiting
    /\ persisted' = committed(results_chunk)
    /\ collect(todo, all_results, <<>>, verified_results)
    /\ UNCHANGED << status, steps, step_index, current_step, task, smtp_in_flight,
                    verified_results, data_json, processed_items, pool_set,
                    events, stop_unstarted,
                    requested_steps, error, aux_vars >>

\* The final partial chunk; the stage function then returns.
persist_final_chunk ==
    /\ pc = "persist_tail"
    /\ ~slot_waiting
    /\ persisted' = committed(results_chunk)
    /\ results_chunk' = <<>>
    /\ stage_return(current_step, all_results)
    /\ UNCHANGED << status, steps, step_index, current_step, task, item, smtp_in_flight,
                    todo, all_results, verified_results, data_json,
                    processed_items, pool_set, events, stop_unstarted,
                    requested_steps, error, aux_vars >>

\* _persist_step_results, then step_complete and the next loop iteration.
persist_step_results ==
    /\ pc = "persist_step"
    /\ data_json' = current_data
    /\ events' = events \cup {<<"step_complete", current_step, step_index>>}
    /\ step_index' = step_index + 1
    /\ pc' = "loop"
    /\ UNCHANGED << status, steps, current_step, current_data, task, item, smtp_in_flight,
                    batch_start, todo, all_results, results_chunk, verified_results,
                    results, persisted, processed_items, pool_set, stop_unstarted,
                    requested_steps, error, aux_vars >>

(***************************************************************************)
(* _persist_chunk returns without a commit when its last attempt failed:   *)
(* the chunk is dropped and the stage goes on.                             *)
(***************************************************************************)
persist_chunk_dropped ==
    /\ pc = "persist"
    /\ ~slot_waiting
    /\ collect(todo, all_results, <<>>, verified_results)
    /\ UNCHANGED << status, steps, step_index, current_step, task, smtp_in_flight,
                    verified_results, persisted, data_json, processed_items, pool_set,
                    events, stop_unstarted,
                    requested_steps, error, aux_vars >>

persist_final_chunk_dropped ==
    /\ pc = "persist_tail"
    /\ ~slot_waiting
    /\ results_chunk' = <<>>
    /\ stage_return(current_step, all_results)
    /\ UNCHANGED << status, steps, step_index, current_step, task, item, smtp_in_flight,
                    todo, all_results, verified_results, persisted, data_json,
                    processed_items, pool_set, events, stop_unstarted,
                    requested_steps, error, aux_vars >>

\* start_pipeline after run_pipeline_steps returned, the status left as it is.
pipeline_completed_status_kept ==
    /\ pc = "returned"
    /\ pc' = "done"
    /\ UNCHANGED << status, steps, step_index, current_step, current_data, task, item,
                    smtp_in_flight, batch_start, todo, all_results, results_chunk,
                    verified_results, results, persisted, data_json,
                    processed_items, pool_set, events, stop_unstarted,
                    requested_steps, error, aux_vars >>

(***************************************************************************)
(* start_pipeline after run_pipeline_steps.                                *)
(***************************************************************************)
\* wait_for returned: "self.active_processes[process_id]['status'] = 'completed'".
pipeline_completed ==
    /\ pc = "returned"
    /\ status' = "completed"
    /\ pc' = "done"
    /\ UNCHANGED << steps, step_index, current_step, current_data, task, item,
                    smtp_in_flight, batch_start, todo, all_results, results_chunk,
                    verified_results, results, persisted, data_json,
                    processed_items, pool_set, events, stop_unstarted,
                    requested_steps, error, aux_vars >>

\* The timeout handling marks the run failed and discards its checkpoints.
pipeline_timeout_discards ==
    /\ pc \in {"loop", "enter", "gather", "persist", "persist_tail", "persist_step"}
    /\ ~slot_waiting
    /\ status' = "failed"
    /\ error' = "Pipeline timeout after 2 hours"
    /\ events' = events \cup {<<"timeout", "", 0>>}
    /\ task' = IF pc = "gather" THEN cancel_batch ELSE task
    /\ persisted' = {}
    /\ data_json' = <<>>
    /\ pc' = "done"
    /\ UNCHANGED << steps, step_index, current_step, current_data, item, smtp_in_flight,
                    batch_start, todo, all_results, results_chunk, verified_results,
                    results, processed_items, pool_set, stop_unstarted,
                    requested_steps, aux_vars >>

\* The 2-hour wait_for expires: run_pipeline_steps is cancelled where it awaits.
\* A gather it awaits is cancelled with it; a thread it awaits runs to its end.
\* "except asyncio.TimeoutError": the status is set and the timeout message sent.
pipeline_timeout ==
    /\ pc \in {"loop", "enter", "gather", "persist", "persist_tail", "persist_step"}
    /\ ~slot_waiting
    /\ status' = "timeout"
    /\ error' = "Pipeline timeout after 2 hours"
    /\ events' = events \cup {<<"timeout", "", 0>>}
    /\ task' = IF pc = "gather" THEN cancel_batch ELSE task
    /\ persisted' = IF pc \in {"persist", "persist_tail"}
                    THEN committed(results_chunk) ELSE persisted
    /\ data_json' = IF pc = "persist_step" THEN current_data ELSE data_json
    /\ pc' = "done"
    /\ UNCHANGED << steps, step_index, current_step, current_data, item, smtp_in_flight,
                    batch_start, todo, all_results, results_chunk, verified_results,
                    results, processed_items, pool_set, stop_unstarted,
                    requested_steps, aux_vars >>

(***************************************************************************)
(* The endpoints of main.py.                                               *)
(***************************************************************************)
\* The targets of the stage in progress whose processing has not started, as a
\* stop request that finds the run running inside a stage sees them.
unstarted ==
    IF status # "running" THEN stop_unstarted
    ELSE IF pc \in InStage THEN { i \in Items : task[i] = "pending" }
    ELSE {}

stop_pipeline ==
    /\ status # "none"
    /\ status' = "stopped"
    /\ stop_unstarted' = unstarted
    /\ UNCHANGED << steps, step_index, current_step, pc, current_data, task, item,
                    smtp_in_flight, batch_start, todo, all_results, results_chunk,
                    verified_results, results, persisted, data_json,
                    processed_items, pool_set, events,
                    requested_steps, error, aux_vars >>

force_stop_pipeline ==
    /\ status # "none"
    /\ status' = "force_stopped"
    /\ error' = "Force stopped by user due to hang/timeout"
    /\ pool_set' = [s \in StepNames |-> FALSE]
    /\ stop_unstarted' = unstarted
    /\ UNCHANGED << steps, step_index, current_step, pc, current_data, task, item,
                    smtp_in_flight, batch_start, todo, all_results, results_chunk,
                    verified_results, results, persisted, data_json,
                    processed_items, events,
                    requested_steps, aux_vars >>

Next ==
    \/ \E requested \in StepLists : start_pipeline(requested)
    \/ start_pipeline_raises
    \/ run_pipeline_steps
    \/ \E step \in StepNames : run_stage(step)
    \/ run_email_verify
    \/ stage_setup_raises
    \/ \E i \in Items : acquire_pool(i)
    \/ \E i \in Items : \E oc \in may(i) : process_item(i, oc)
    \/ \E e \in Items : \E oc \in may(e) : verify_email(e, oc)
    \/ \E e \in Items : thread_exit(e)
    \/ gather_batch
    \/ gather_verify_batch
    \/ batch_timeout
    \/ persist_chunk
    \/ persist_final_chunk
    \/ persist_step_results
    \/ pipeline_completed
    \/ pipeline_timeout
    \/ stop_pipeline
    \/ force_stop_pipeline

Spec == Init /\ [][Next]_vars

(***************************************************************************)
(* start_pipeline called again for the process id of a run.                *)
(***************************************************************************)
AlreadyRunning == <<"error", "Process already running", 0>>

\* is_process_running(process_id)
is_process_running == status = "running"

\* start_pipeline without the is_process_running check: the entry of the run
\* is initialised again and run_pipeline_steps is entered again.
start_pipeline_unchecked(requested) ==
    /\ second_calls < MaxSecondCalls
    /\ second_calls' = second_calls + 1
    /\ status = "running"
    /\ status' = "running"
    /\ requested_steps' = requested
    /\ error' = ""
    /\ steps' = OrderedSteps(requested)
    /\ step_index' = 1
    /\ current_step' = ""
    /\ current_data' = [k \in 1..NItems |-> k]
    /\ processed_items' = 0
    /\ results' = [s \in StepNames |-> <<>>]
    /\ events' = events \cup {<<"started", "", 0>>}
    /\ pc' = "loop"
    /\ UNCHANGED << task, item, smtp_in_flight, batch_start, todo, all_results,
                    results_chunk, verified_results, persisted, data_json,
                    pool_set, stop_unstarted, store_vars, verifier_vars, probe_vars,
                    text_vars, resolver_vars, blog_vars, rank_vars, commit_vars,
                    count_vars, pool_vars, key_vars, socket_vars >>

\* start_pipeline for a process id whose run is running: the error event is
\* sent and the call returns.
start_pipeline_running(requested) ==
    /\ second_calls < MaxSecondCalls
    /\ second_calls' = second_calls + 1
    /\ is_process_running
    /\ events' = events \cup {AlreadyRunning}
    /\ UNCHANGED beside_restart

(***************************************************************************)
(* The run under fair scheduling.  The event loop runs every coroutine     *)
(* that is ready, every per-item call returns or runs into its wait_for,   *)
(* and every _persist_chunk call returns, with or without a commit: the    *)
(* steps of the run's own coroutines are taken when they stay enabled.     *)
(* Nothing is assumed of the batch timer, the 2-hour timer, the stop       *)
(* requests or a failing stage set-up; they may or may not happen.         *)
(***************************************************************************)
RunSteps ==
    \/ run_pipeline_steps
    \/ \E step \in StepNames : run_stage(step)
    \/ run_email_verify
    \/ \E i \in Items : acquire_pool(i)
    \/ \E i \in Items : \E oc \in may(i) : process_item(i, oc)
    \/ \E e \in Items : \E oc \in may(e) : verify_email(e, oc)
    \/ gather_batch
    \/ gather_verify_batch
    \/ persist_chunk
    \/ persist_final_chunk
    \/ persist_step_results
    \/ pipeline_completed

LiveNext ==
    \/ Next
    \/ persist_chunk_dropped
    \/ persist_final_chunk_dropped

SpecLive == Init /\ [][LiveNext]_vars /\ WF_vars(RunSteps)

(***************************************************************************)
(* Runs over every stage list, in which every awaited call answers in time *)
(* and nobody stops the run: what start_pipeline makes of its steps.       *)
(***************************************************************************)
NextSteps ==
    \/ \E requested \in AllStepLists : start_pipeline(requested)
    \/ run_pipeline_steps
    \/ \E step \in StepNames : run_stage(step)
    \/ run_email_verify
    \/ \E i \in Items : acquire_pool(i)
    \/ \E i \in Items : process_item(i, "ok")
    \/ \E e \in Items : verify_email(e, "ok")
    \/ gather_batch
    \/ gather_verify_batch
    \/ persist_chunk
    \/ persist_final_chunk
    \/ persist_step_results
    \/ pipeline_completed

SpecSteps == Init /\ [][NextSteps]_vars

(***************************************************************************)
(* The datastore taken on its own: what _persist_chunk makes of the        *)
(* EmailData rows.  A website is a sequence of characters with the scheme, *)
(* when there is one, as its first element.                                *)
(***************************************************************************)
Schemes == {"https://", "http://"}

www == << "w", "w", "w", "." >>

lower(s) ==
    [k \in 1..Len(s) |-> IF s[k] = "A" THEN "a" ELSE IF s[k] = "W" THEN "w" ELSE s[k]]

\* str.lstrip('www.'): drops every leading character that is a 'w' or a '.'.
RECURSIVE lstrip_www(_)
lstrip_www(s) ==
    IF s # <<>> /\ s[1] \in {"w", "."} THEN lstrip_www(Tail(s)) ELSE s

prepare_url(value) ==
    IF value = <<>> THEN <<>>
    ELSE IF value[1] \in Schemes THEN value
    ELSE << "https://" >> \o value

\* The key of a row; <<>> stands for None and for ''.
extract_domain(value) ==
    LET url == prepare_url(value)
    IN  IF url = <<>> THEN <<>> ELSE lstrip_www(lower(Tail(url)))

possible_websites(n) ==
    { n, << "https://" >> \o n, << "http://" >> \o n, www \o n, << "https://" >> \o www \o n }

\* The upload whose run makes the checkpoints; the datastore holds the rows of
\* other uploads too.
Uploads == {1}

\* A scraped address as scrape_emails returns it and as the verify stage
\* enriches it; quality -1 stands for None.
ScrapedEditor ==
    [email |-> "ed@a.c", role |-> "editor", has_verification |-> TRUE,
     quality |-> 90, status |-> "deliverable"]

ScrapedGeneral ==
    [email |-> "info@a.c", role |-> "general", has_verification |-> TRUE,
     quality |-> 40, status |-> "rejected"]

\* The targets checkpoints are made of: the dicts main.py builds from the rows
\* of the upload, with what the stages have added to them.
StoreItems ==
    { [website |-> www \o << "a", ".", "c" >>, email |-> "", company |-> "Acme",
       name |-> "Ann", status |-> "", has_is_blog |-> TRUE, is_blog |-> "yes",
       blog_score |-> 8, scraped_emails |-> << ScrapedEditor >>],
      [website |-> << "https://", "A", ".", "c" >>, email |-> "info@a.c", company |-> "Other",
       name |-> "Bob", status |-> "rejected", has_is_blog |-> TRUE, is_blog |-> "no",
       blog_score |-> 0, scraped_emails |-> << ScrapedGeneral >>],
      [website |-> www, email |-> "", company |-> "",
       name |-> "Cy", status |-> "", has_is_blog |-> FALSE, is_blog |-> "unset",
       blog_score |-> -1, scraped_emails |-> <<>>],
      [website |-> <<>>, email |-> "x@d.c", company |-> "Dee",
       name |-> "", status |-> "", has_is_blog |-> FALSE, is_blog |-> "unset",
       blog_score |-> -1, scraped_emails |-> <<>>] }

MaxChunk == 2

Chunks == UNION { [1..n -> StoreItems] : n \in 0..MaxChunk }

\* A row as the upload endpoint creates it.
uploaded_record(up, website, name, company) ==
    [upload_id |-> up, website |-> website, source |-> "upload", email |-> "",
     name |-> name, company |-> company, status |-> "Unverified", verified |-> FALSE,
     is_blog |-> "unset", blog_score |-> -1,
     verification_quality |-> -1, verification_status |-> ""]

\* A row as _persist_chunk creates it.
new_record(up, n, email) ==
    [upload_id |-> up, website |-> n, source |-> "pipeline", email |-> email,
     name |-> "", company |-> "", status |-> "", verified |-> FALSE,
     is_blog |-> "unset", blog_score |-> -1,
     verification_quality |-> -1, verification_status |-> ""]

\* The datastore before the first checkpoint: empty, or the rows of an upload.
InitStores ==
    { <<>>,
      << uploaded_record(1, << "https://" >> \o www \o << "a", ".", "c" >>, "Zed", "Zed Co") >>,
      << new_record(2, << "a", ".", "c" >>, ""), uploaded_record(1, www, "", "") >> }

\* website_to_record: the first row of the upload for each key.
website_to_record(st, up) ==
    LET rows == { k \in 1..Len(st) : st[k].upload_id = up /\ st[k].website # <<>> }
        key(k) == extract_domain(st[k].website)
    IN  [n \in { key(k) : k \in rows } \ {<<>>} |->
            CHOOSE k \in rows : key(k) = n /\ \A j \in rows : key(j) = n => k <= j]

\* The row of a target that is looked up and never created: 0 always.
find_record_never(st, map, up, n) == 0

\* The row of a target: by key, else by the spellings of its website; 0: none.
find_record(st, map, up, n) ==
    IF n \in DOMAIN map THEN map[n]
    ELSE LET hits == { k \in 1..Len(st) :
                         st[k].upload_id = up /\ st[k].website \in possible_websites(n) }
         IN  IF hits = {} THEN 0 ELSE CHOOSE k \in hits : \A j \in hits : k <= j

blog_update(step, it, rec) ==
    IF step = "blog_check" /\ it.has_is_blog
    THEN [rec EXCEPT !.is_blog = it.is_blog, !.blog_score = it.blog_score]
    ELSE rec

all_scraped(it) == SelectSeq(it.scraped_emails, LAMBDA e : e.email # "")

scrape_update(step, it, rec) ==
    IF step = "email_scrape" /\ all_scraped(it) # <<>>
    THEN LET primary == all_scraped(it)[1]
         IN  [rec EXCEPT
                !.email = primary.email,
                !.name = IF primary.role # "" THEN primary.role ELSE @,
                !.verification_quality = IF primary.has_verification THEN primary.quality ELSE @,
                !.verification_status = IF primary.has_verification THEN primary.status ELSE @,
                !.verified = IF primary.has_verification /\ primary.quality # -1
                             THEN primary.quality >= 85 ELSE @]
    ELSE rec

any_step_update(it, rec) ==
    [rec EXCEPT
       !.company = IF it.company # "" /\ @ = "" THEN it.company ELSE @,
       !.name = IF it.name # "" /\ @ = "" THEN it.name ELSE @,
       !.status = IF it.status # "" /\ @ = "" THEN it.status ELSE @]

update_record(step, it, rec) ==
    any_step_update(it, scrape_update(step, it, blog_update(step, it, rec)))

RECURSIVE persist_items(_, _, _, _, _)
persist_items(step, chunk, up, st, map) ==
    IF chunk = <<>> THEN st
    ELSE LET it == Head(chunk)
         IN  IF it.website = <<>> THEN persist_items(step, Tail(chunk), up, st, map)
             ELSE LET n == extract_domain(it.website)
                      found == find_record(st, map, up, n)
                      st1 == IF found = 0 THEN Append(st, new_record(up, n, it.email)) ELSE st
                      k == IF found = 0 THEN Len(st) + 1 ELSE found
                      map1 == IF found = 0 THEN (n :> k) @@ map ELSE map
                  IN  persist_items(step, Tail(chunk), up,
                                    [st1 EXCEPT ![k] = update_record(step, it, st1[k])], map1)

\* The rows after _persist_chunk has committed.
persist_chunk_rows(step, chunk, up, st) ==
    persist_items(step, chunk, up, st, website_to_record(st, up))

\* The last target of a chunk that has a website, as a sequence of at most one.
last_item(chunk) ==
    LET with_website == SelectSeq(chunk, LAMBDA it : it.website # <<>>)
    IN  IF with_website = <<>> THEN <<>> ELSE << with_website[Len(with_website)] >>

\* _persist_chunk commits.
store_persist_chunk(step, chunk, up) ==
    /\ store' = persist_chunk_rows(step, chunk, up, store)
    /\ store_op' = [step |-> step, last |-> last_item(chunk), upload_id |-> up]
    /\ UNCHANGED beside_store

\* _persist_chunk meets an exception of the session: rollback, nothing written.
store_persist_chunk_fails ==
    /\ store' = store
    /\ store_op' = NoOp
    /\ UNCHANGED beside_store

(***************************************************************************)
(* The retry loop of _persist_chunk: one attempt after another, each in a  *)
(* session of its own.                                                     *)
(***************************************************************************)
MaxCalls == 2

max_retries == 3

\* What the session can raise while an attempt reads, writes and commits.
CommitErrors ==
    { "(sqlite3.OperationalError) Database is locked", "UNIQUE constraint failed" }

\* 'database is locked' in error_msg.lower()
database_is_locked(error_msg) ==
    error_msg \in { "database is locked", "(sqlite3.OperationalError) Database is locked" }

\* The chunks handed to the calls followed attempt by attempt: the targets one
\* after another, cut after any of them.
RECURSIVE in_a_row(_)
in_a_row(S) ==
    IF S = {} THEN <<>>
    ELSE LET it == CHOOSE x \in S : TRUE
         IN  << it >> \o in_a_row(S \ {it})

CommitChunks == { SubSeq(in_a_row(StoreItems), 1, n) : n \in 0..Cardinality(StoreItems) }

\* _persist_chunk(process_id, step, chunk, upload_id) is called.
persist_chunk_called(step, chunk, up) ==
    /\ commit_pc \in {"idle", "committed", "dropped"}
    /\ commit_calls < MaxCalls
    /\ commit_calls' = commit_calls + 1
    /\ commit_pc' = "attempt"
    /\ commit_call' = [step |-> step, chunk |-> chunk, upload_id |-> up]
    /\ commit_attempt' = 0
    /\ retry_delay' = 1
    /\ slept' = <<>>
    /\ raised' = <<>>
    /\ store_before' = store
    /\ UNCHANGED << store, beside_commit >>

\* session.commit() of the attempt succeeds and _persist_chunk returns.
commit_succeeds ==
    /\ commit_pc = "attempt"
    /\ store' = persist_chunk_rows(commit_call.step, commit_call.chunk,
                                   commit_call.upload_id, store)
    /\ commit_pc' = "committed"
    /\ UNCHANGED << commit_call, commit_attempt, retry_delay, slept, raised, store_before,
                    commit_calls, beside_commit >>

\* The except clause retrying after every exception.
commit_raises_retry_any(error_msg) ==
    /\ commit_pc = "attempt"
    /\ raised' = Append(raised, error_msg)
    /\ IF commit_attempt < max_retries - 1
       THEN /\ slept' = Append(slept, retry_delay)
            /\ retry_delay' = retry_delay * 2
            /\ commit_attempt' = commit_attempt + 1
            /\ commit_pc' = "attempt"
       ELSE /\ commit_pc' = "dropped"
            /\ UNCHANGED << slept, retry_delay, commit_attempt >>
    /\ UNCHANGED << store, commit_call, store_before, commit_calls, beside_commit >>

\* The attempt raises: rollback, then a sleep and the next attempt, or the
\* return that drops the chunk.
commit_raises(error_msg) ==
    /\ commit_pc = "attempt"
    /\ raised' = Append(raised, error_msg)
    /\ IF database_is_locked(error_msg) /\ commit_attempt < max_retries - 1
       THEN /\ slept' = Append(slept, retry_delay)
            /\ retry_delay' = retry_delay * 2
            /\ commit_attempt' = commit_attempt + 1
            /\ commit_pc' = "attempt"
       ELSE /\ commit_pc' = "dropped"
            /\ UNCHANGED << slept, retry_delay, commit_attempt >>
    /\ UNCHANGED << store, commit_call, store_before, commit_calls, beside_commit >>

(***************************************************************************)
(* The checkpoint key taken on its own: _persist_chunk computes            *)
(* "domain = self._extract_domain(website)" for each target of a chunk and *)
(* looks the row up by it.  The hosts are a stem with some leading         *)
(* characters, "www." and its spellings among them.                        *)
(***************************************************************************)
MaxPrefix == 4

HostStem == << "e", "b", ".", "c" >>

HostPrefixes == UNION { [1..n -> {"w", "W", "."}] : n \in 0..MaxPrefix }

KeyHosts == { p \o HostStem : p \in HostPrefixes }

\* The host in lower case without one leading "www." label.
without_www_label(host) ==
    LET l == lower(host)
    IN  IF Len(l) >= Len(www) /\ SubSeq(l, 1, Len(www)) = www
        THEN SubSeq(l, Len(www) + 1, Len(l))
        ELSE l

\* "domain = self._extract_domain(website)" for the targets of the chunk.
extract_domains ==
    /\ key_pc = "idle"
    /\ domain_keys' = << extract_domain(websites[1]), extract_domain(websites[2]) >>
    /\ key_pc' = "keyed"
    /\ UNCHANGED << websites, beside_key >>

\* The rows are looked up and the chunk is committed.
keys_taken ==
    /\ key_pc = "keyed"
    /\ key_pc' = "done"
    /\ UNCHANGED << websites, domain_keys, beside_key >>

StoreInit ==
    /\ pipeline_init
    /\ restart_init
    /\ socket_init
    /\ key_init
    /\ pool_init
    /\ count_init
    /\ commit_init
    /\ rank_init
    /\ blog_init
    /\ resolver_init
    /\ text_init
    /\ probe_init
    /\ verifier_init
    /\ store \in InitStores
    /\ store_op = NoOp

StoreNext ==
    \/ \E step \in StepNames, chunk \in Chunks, up \in Uploads :
          store_persist_chunk(step, chunk, up)
    \/ store_persist_chunk_fails

SpecStore == StoreInit /\ [][StoreNext]_vars

\* EmailVerifier(enable_smtp, quick_mode): simple, SMTP quick or SMTP thorough.
VerifierInit ==
    /\ pipeline_init
    /\ restart_init
    /\ socket_init
    /\ key_init
    /\ pool_init
    /\ count_init
    /\ commit_init
    /\ rank_init
    /\ blog_init
    /\ resolver_init
    /\ text_init
    /\ probe_init
    /\ store_init
    /\ v_pc = "idle"
    /\ v_email = NoAddress
    /\ enable_smtp \in BOOLEAN
    /\ quick_mode \in BOOLEAN
    /\ mx_hosts = <<>>
    /\ mx_index = 1
    /\ attempt = 0
    /\ accepted_any = FALSE
    /\ temp_seen = FALSE
    /\ catchall = FALSE
    /\ notes = <<>>
    /\ probes = <<>>
    /\ v_result = NoResult
    /\ smtp_cache = [e \in Emails |-> NoResult]
    /\ mx_cache = [d \in Domains |-> NotCached]
    /\ verifications = 0

VerifierNext ==
    \/ \E raw \in Addresses : verify_email_advanced(raw)
    \/ \E conv \in Conversations : smtp_probe(conv)
    \/ \E conv \in Conversations : catchall_probe(conv)

SpecVerifier == VerifierInit /\ [][VerifierNext]_vars

ProbeInit ==
    /\ pipeline_init
    /\ restart_init
    /\ socket_init
    /\ key_init
    /\ pool_init
    /\ count_init
    /\ commit_init
    /\ rank_init
    /\ blog_init
    /\ resolver_init
    /\ text_init
    /\ store_init
    /\ verifier_init
    /\ probe_init

ProbeNext ==
    \/ \E oc \in ConnectOutcomes : smtp_connect(oc)
    \/ \E oc \in EhloOutcomes : smtp_ehlo(oc)
    \/ \E conv \in MailOutcomes : smtp_mail(conv)
    \/ \E conv \in RcptOutcomes : smtp_rcpt(conv)

SpecProbe == ProbeInit /\ [][ProbeNext]_vars

TextInit ==
    /\ pipeline_init
    /\ restart_init
    /\ socket_init
    /\ key_init
    /\ pool_init
    /\ count_init
    /\ commit_init
    /\ rank_init
    /\ blog_init
    /\ resolver_init
    /\ probe_init
    /\ store_init
    /\ verifier_init
    /\ text_in \in TextInputs
    /\ text_out = <<>>
    /\ text_n = 0

TextNext ==
    \/ normalize_input
    \/ normalize_output

SpecText == TextInit /\ [][TextNext]_vars

ResolverInit ==
    /\ pipeline_init
    /\ restart_init
    /\ socket_init
    /\ key_init
    /\ pool_init
    /\ count_init
    /\ commit_init
    /\ rank_init
    /\ blog_init
    /\ text_init
    /\ probe_init
    /\ store_init
    /\ verifier_init
    /\ resolver_init

ResolverNext ==
    \/ \E c \in Callers, raw \in RawDomains : resolve_mx_read(c, raw)
    \/ \E c \in Callers, oc \in DnsOutcomes : resolve_mx_dns(c, oc)
    \/ \E c \in Callers : resolve_mx_write(c)

SpecResolver == ResolverInit /\ [][ResolverNext]_vars

BlogInit ==
    /\ pipeline_init
    /\ restart_init
    /\ socket_init
    /\ key_init
    /\ pool_init
    /\ count_init
    /\ commit_init
    /\ rank_init
    /\ resolver_init
    /\ text_init
    /\ probe_init
    /\ store_init
    /\ verifier_init
    /\ page \in Pages
    /\ classified = NotClassified
    /\ page_pc = "idle"

BlogNext == classify_page

SpecBlog == BlogInit /\ [][BlogNext]_vars

RankInit ==
    /\ pipeline_init
    /\ restart_init
    /\ socket_init
    /\ key_init
    /\ pool_init
    /\ count_init
    /\ commit_init
    /\ blog_init
    /\ resolver_init
    /\ text_init
    /\ probe_init
    /\ store_init
    /\ verifier_init
    /\ extracted \in [ScrapedSites -> SUBSET ScrapedPool]
    /\ context \in [ScrapedSites -> {0, 6}]
    /\ scrape_urls = <<>>
    /\ verified_emails = <<>>
    /\ rank_pc = "idle"

RankNext ==
    \/ \E urls \in UrlLists, verify_emails \in BOOLEAN : scrape_emails(urls, verify_emails)
    \/ scrape_emails_taken

SpecRank == RankInit /\ [][RankNext]_vars

ScheduleInit == VerifierInit

ScheduleNext ==
    \/ \E raw \in ScheduleAddresses : verify_email_advanced(raw)
    \/ \E conv \in Conversations : smtp_probe(conv)
    \/ \E conv \in Conversations : catchall_probe(conv)

SpecSchedule == ScheduleInit /\ [][ScheduleNext]_vars

CommitInit ==
    /\ pipeline_init
    /\ restart_init
    /\ socket_init
    /\ key_init
    /\ pool_init
    /\ count_init
    /\ rank_init
    /\ blog_init
    /\ resolver_init
    /\ text_init
    /\ probe_init
    /\ verifier_init
    /\ store \in InitStores
    /\ store_op = NoOp
    /\ commit_init

CommitNext ==
    \/ \E step \in StepNames, chunk \in CommitChunks, up \in Uploads :
          persist_chunk_called(step, chunk, up)
    \/ commit_succeeds
    \/ \E error_msg \in CommitErrors : commit_raises(error_msg)

SpecCommit == CommitInit /\ [][CommitNext]_vars

(***************************************************************************)
(* The counters of one stage of one run.                                   *)
(***************************************************************************)
CountInit ==
    /\ pipeline_init
    /\ restart_init
    /\ socket_init
    /\ key_init
    /\ pool_init
    /\ commit_init
    /\ rank_init
    /\ blog_init
    /\ resolver_init
    /\ text_init
    /\ probe_init
    /\ store_init
    /\ verifier_init
    /\ stage_data \in CountData
    /\ count_step \in {"blog_check", "email_scrape", "email_verify"}
    /\ counters = start_entry(stage_data)
    /\ completed = 0
    /\ uncollected = stage_tasks(count_step, stage_data)

CountNext ==
    \/ \E t \in { [local |-> "", host |-> << i >>] : i \in 1..MaxTargets } : count_processed(t)
    \/ \E email \in { normalize_email(a) : a \in CountAddresses } : count_verified(email)
    \/ \E t \in { [local |-> "", host |-> << i >>] : i \in 1..MaxTargets }
                \cup { normalize_email(a) : a \in CountAddresses } : count_lost(t)

SpecCount == CountInit /\ [][CountNext]_vars

(***************************************************************************)
(* The runs of one ProcessingPipeline around its blog semaphore.              *)
(***************************************************************************)
PoolInit ==
    /\ pipeline_init
    /\ restart_init
    /\ socket_init
    /\ key_init
    /\ count_init
    /\ commit_init
    /\ rank_init
    /\ blog_init
    /\ resolver_init
    /\ text_init
    /\ probe_init
    /\ store_init
    /\ verifier_init
    /\ pool_init

PoolNext ==
    \/ \E r \in Runs, n \in PoolItems : run_blog_check(r, n)
    \/ \E r \in Runs, i \in PoolItems : pool_acquire(r, i)
    \/ \E r \in Runs, i \in PoolItems : pool_release(r, i)
    \/ \E r \in Runs : pool_run_completed(r)
    \/ \E r \in Runs : force_stop(r)

SpecPool == PoolInit /\ [][PoolNext]_vars

(***************************************************************************)
(* The keys of two targets of one chunk.                                   *)
(***************************************************************************)
KeyInit ==
    /\ pipeline_init
    /\ restart_init
    /\ socket_init
    /\ pool_init
    /\ count_init
    /\ commit_init
    /\ rank_init
    /\ blog_init
    /\ resolver_init
    /\ text_init
    /\ probe_init
    /\ store_init
    /\ verifier_init
    /\ websites \in KeyHosts \X KeyHosts
    /\ domain_keys = << <<>>, <<>> >>
    /\ key_pc = "idle"

KeyNext ==
    \/ extract_domains
    \/ keys_taken

SpecKey == KeyInit /\ [][KeyNext]_vars

(***************************************************************************)
(* The progress websockets of one process id and the events of its run.    *)
(***************************************************************************)
SocketInit ==
    /\ pipeline_init
    /\ restart_init
    /\ key_init
    /\ pool_init
    /\ count_init
    /\ commit_init
    /\ rank_init
    /\ blog_init
    /\ resolver_init
    /\ text_init
    /\ probe_init
    /\ store_init
    /\ verifier_init
    /\ socket_init

SocketNext ==
    \/ \E c \in Connections : websocket_endpoint(c)
    \/ \E c \in Connections : connection_breaks(c)
    \/ \E c \in Connections : websocket_disconnect(c)
    \/ send_progress

SpecSocket == SocketInit /\ [][SocketNext]_vars

(***************************************************************************)
(* A run over every stage list during which start_pipeline is called again *)
(* for its process id.                                                     *)
(***************************************************************************)
RestartInit ==
    /\ pipeline_init
    /\ socket_init
    /\ key_init
    /\ pool_init
    /\ count_init
    /\ commit_init
    /\ rank_init
    /\ blog_init
    /\ resolver_init
    /\ text_init
    /\ probe_init
    /\ store_init
    /\ verifier_init
    /\ restart_init

RestartNext ==
    \/ NextSteps
    \/ stop_pipeline
    \/ \E requested \in AllStepLists : start_pipeline_running(requested)

SpecRestart == RestartInit /\ [][RestartNext]_vars

(***************************************************************************)
(* Properties.                                                             *)
(***************************************************************************)
Terminal == {"completed", "failed", "timeout", "stopped", "force_stopped"}

StepStarts(ev) == { e \in ev : e[1] = "step_start" }

\* The stages whose step_complete event was sent.
Completed == { s \in StepNames : \E k \in 1..Len(steps) : <<"step_complete", s, k>> \in events }

TimedOutBatches(s) == { e \in events : e[1] = "batch_timeout" /\ e[2] = s }

\* The targets a stage was given: all of them for the first stage, the results
\* of the stage before it for a later one.
StageInput(s) ==
    IF s = steps[1] THEN Items
    ELSE LET k == CHOOSE n \in 2..Len(steps) : steps[n] = s
         IN  Range(results[steps[k - 1]])

\* The field of a target a blog / scrape stage writes, as the stage should leave it.
stage_field(s, i, oc) ==
    IF s = "blog_check" THEN blog_result(i, oc) ELSE scrape_result(i, oc)

\* C1: once the status of a run has left `running` (completed, failed, timeout,
\* stopped or force_stopped), no later step changes it again.
StatusTerminalOnceLeft ==
    [][(status \in Terminal) => (status' = status)]_vars

\* C2: no target whose processing had not started when the stop was requested
\* is afterwards written to the datastore by the run (stated for the stages
\* whose checkpoint writes the output of the stage onto the record).
StopLeavesUnstartedUnwritten ==
    current_step \in {"blog_check", "email_scrape"} =>
        \A i \in stop_unstarted : <<current_step, i>> \notin persisted

\* C3: after a user stop arrived during a stage (with targets of the stage not
\* yet started), the stage does not go on to a further batch once the batch in
\* progress is over.
StopObservedAtBatchBoundary ==
    [][(status = "stopped" /\ stop_unstarted # {} /\ pc \in InStage /\ pc' = "gather")
          => (pc = "gather" /\ batch_start' = batch_start)]_vars

VerifyInFlightWithinLimit ==
    Cardinality(smtp_in_flight) <= verification_semaphore_limit

\* C6: inside a stage, the targets whose processing is complete but which are
\* not committed to the datastore number at most chunk_size.
UncommittedWithinChunk ==
    pc \in InStage =>
        Cardinality({ i \in Items : task[i] \in Outcomes
                                    /\ <<current_step, i>> \notin persisted })
            <= chunk_size(current_step)

\* C7: every target given to a stage is in the output of the stage, carrying
\* the result or the diagnostic of that stage.
EveryInputItemInOutput ==
    \A s \in Completed :
        \A i \in StageInput(s) : i \in Range(results[s]) /\ item[i][s].present

\* C8: a per-item timeout or exception leaves its placeholder on that target
\* alone: every finished item carries the result of its own outcome, and a
\* stage no batch of which timed out returns every target it was given.
ItemFailureDegradesOnlyThatItem ==
    /\ \A i \in Items :
          (pc \in InStage /\ current_step \in {"blog_check", "email_scrape"}
             /\ task[i] \in Outcomes)
          => item[i][current_step] = stage_field(current_step, i, task[i])
    /\ \A e \in Items :
          (pc \in InStage /\ current_step = "email_verify" /\ verified_results[e].present)
          => verified_results[e] = verify_result(e, task[e])
    /\ \A s \in Completed :
          TimedOutBatches(s) = {} =>
              /\ Range(results[s]) = StageInput(s)
              /\ \A i \in StageInput(s) : item[i][s].present

\* C8 witness: a completed stage with a timed-out target, a failed target and a
\* target carrying a proper result, all three in its output.
FailedAndGoodItemsSideBySide ==
    \E s \in Completed \ {"email_verify"} : \E i, j, k \in Range(results[s]) :
        /\ item[i][s] = stage_field(s, i, "timeout")
        /\ item[j][s] = stage_field(s, j, "error")
        /\ item[k][s] = stage_field(s, k, "ok")

\* C9: a batch timeout leaves the status alone, abandons exactly the batch (none
\* of its tasks stays pending or running, nothing is added to the results), and
\* the stage goes on to the next batch, or past the loop after the last one.
BatchTimeoutAbandonsBatchOnly ==
    [][(\E e \in events' \ events : e[1] = "batch_timeout")
          => /\ status' = status
             /\ \A i \in BatchTasks(batch_start) : task'[i] \notin Unfinished
             /\ current_step # "email_verify" => all_results' = all_results
             /\ IF batch_start + batch_size(current_step) <= Len(current_data)
                THEN pc' = "gather"
                     /\ batch_start' = batch_start + batch_size(current_step)
                ELSE pc' \in {"persist", "persist_tail", "persist_step"}]_vars

\* C9 witness: a batch timed out and a later batch of the stage is being gathered.
NextBatchAfterBatchTimeout ==
    /\ pc = "gather"
    /\ status = "running"
    /\ \E e \in TimedOutBatches(current_step) : e[3] < batch_start

\* C10: while an item of a later stage is being processed, the stage before it
\* has completed and its results are the input of the later stage.
StagesStrictlySequenced ==
    \A k \in 2..Len(steps) :
        (pc \in InStage /\ current_step = steps[k]
           /\ \E i \in Items : task[i] \notin {"none", "pending"})
        => /\ <<"step_complete", steps[k - 1], k - 1>> \in events
           /\ current_data = results[steps[k - 1]]

\* C10 witness: an item of the second stage runs on results the first stage
\* handed over after losing a batch.
SecondStageRunsOnHandedOverResults ==
    /\ pc = "gather"
    /\ Len(steps) > 1
    /\ current_step = steps[2]
    /\ Len(current_data) < NItems
    /\ \E i \in Items : task[i] = "running"

\* The position at which a stage is first named in a stage list.
FirstIndex(req, s) ==
    CHOOSE k \in 1..Len(req) : req[k] = s /\ \A j \in 1..(k - 1) : req[j] # s

TimeoutKeepsCheckpoints ==
    [][(<<"timeout", "", 0>> \in events' \ events)
          => /\ status' = "timeout"
             /\ persisted \subseteq persisted'
             /\ data_json' \in {data_json, current_data}]_vars

\* C12 witness: a run timed out inside its second stage with records of the
\* first stage and of the second in the datastore.
TimedOutWithCheckpoints ==
    /\ status = "timeout"
    /\ <<"timeout", "", 0>> \in events
    /\ Len(steps) = 2
    /\ step_index = 2
    /\ \E i, j \in Items : <<steps[1], i>> \in persisted /\ <<steps[2], j>> \in persisted
    /\ data_json # <<>>

\* C13: a run-level exception, a failure during the setup of the run included,
\* leaves the run with status `failed` and the message of the exception in
\* the run state.
RunLevelExceptionMarksFailed ==
    [][(pc' = "raised" /\ pc # "raised") => (status' = "failed" /\ error' # "")]_vars

CheckpointKeepsCompanyAndName ==
    [][\A k \in 1..Len(store) :
          /\ (store[k].company # "") => (store'[k].company = store[k].company)
          /\ (store[k].name # "") => (store'[k].name = store[k].name)]_vars

\* C16: after an email_verify checkpoint of a target whose first scraped
\* address was verified, the row of the target carries the quality and the
\* status of that verification.
VerifyCheckpointWritesVerification ==
    ( /\ store_op.step = "email_verify"
      /\ store_op.last # <<>>
      /\ all_scraped(store_op.last[1]) # <<>>
      /\ all_scraped(store_op.last[1])[1].has_verification )
    => LET up == store_op.upload_id
           primary == all_scraped(store_op.last[1])[1]
           k == find_record(store, website_to_record(store, up), up,
                            extract_domain(store_op.last[1].website))
       IN  /\ k # 0
           /\ store[k].verification_quality = primary.quality
           /\ store[k].verification_status = primary.status

WellFormedResult(r) ==
    /\ r.quality \in 0..100
    /\ (r.quality >= 85) <=> (r.status = "deliverable")

HardRejected(p) == p.conv.stage = "rcpt" /\ p.conv.code \in {550, 551}

NoMailHost(domain) ==
    \/ dns(domain).mx = "NoAnswer" /\ ~dns(domain).a
    \/ dns(domain).mx = "NXDOMAIN"

\* C17: every result of the verifier, in simple, SMTP quick and SMTP thorough
\* mode, and both placeholder results of the verify stage, have a quality
\* within 0..100 that is 85 or more exactly when the status is `deliverable`.
QualityInRangeAndDeliverableFrom85 ==
    /\ (v_pc = "done") => WellFormedResult(v_result)
    /\ \A e \in Emails : (smtp_cache[e] # NoResult) => WellFormedResult(smtp_cache[e])
    /\ \A oc \in {"timeout", "error"} : WellFormedResult(verify_result(1, oc))

\* C17 witness: a thorough verification returned (90, deliverable) after its
\* catch-all probe was turned down.
ThoroughDeliverableReturned ==
    /\ v_pc = "done"
    /\ ~quick_mode
    /\ v_result = [quality |-> 90, status |-> "deliverable"]
    /\ Len(probes) >= 2

\* C18, as stated: in SMTP mode a verification one of whose probes was
\* answered 550 or 551 at RCPT returns (40, rejected).
AnyHardRejectMeansRejected ==
    ( /\ v_pc = "done"
      /\ enable_smtp
      /\ \E k \in 1..Len(probes) : HardRejected(probes[k]) )
    => v_result = [quality |-> 40, status |-> "rejected"]

\* C18, amended: in SMTP mode a verification none of whose probes accepted
\* the address and one of whose probes was answered 550 or 551 at RCPT
\* returns (40, rejected).
HardRejectWithoutAcceptanceMeansRejected ==
    ( /\ v_pc = "done"
      /\ enable_smtp
      /\ \E k \in 1..Len(probes) : HardRejected(probes[k])
      /\ \A k \in 1..Len(probes) : ~smtp_check_address(probes[k].conv).ok )
    => v_result = [quality |-> 40, status |-> "rejected"]

\* C18 witness: the first MX host answered 550, the second 451, and the
\* verification returned (40, rejected).
RejectedAfterHardRejectAndTempfail ==
    /\ v_pc = "done"
    /\ Len(probes) = 2
    /\ HardRejected(probes[1])
    /\ probes[2].conv.code = 451
    /\ probes[1].mx # probes[2].mx
    /\ v_result = [quality |-> 40, status |-> "rejected"]

\* C19: in SMTP mode the verification of a well-formed address whose domain
\* has neither an MX nor an A record, or does not resolve, returns (30, no_mx)
\* and holds no SMTP conversation.
NoMailHostMeansNoMxAndNoProbe ==
    ( /\ v_pc # "idle"
      /\ enable_smtp
      /\ is_valid_email_format(v_email)
      /\ ~looks_like_asset_or_id(v_email)
      /\ NoMailHost(v_email.host) )
    => /\ v_pc = "done"
       /\ v_result = [quality |-> 30, status |-> "no_mx"]
       /\ probes = <<>>

\* C19 witness: after a verification that probed, the address of a domain
\* that does not resolve was verified as (30, no_mx).
UnresolvableDomainVerified ==
    /\ v_pc = "done"
    /\ enable_smtp
    /\ verifications = 2
    /\ v_email.host = << "nx", "com" >>
    /\ v_result.status = "no_mx"
    /\ \E e \in Emails : smtp_cache[e].status = "deliverable"

\* C20: with quick mode on, no conversation of a verification is a catch-all
\* probe.
QuickModeIssuesNoCatchallProbe ==
    quick_mode =>
        /\ v_pc # "catchall"
        /\ \A k \in 1..Len(probes) : probes[k].rcpt # "catchall_probe"

\* C20 witness: a quick verification returned after a probe accepted the
\* address.
QuickAcceptedReturned ==
    /\ v_pc = "done"
    /\ enable_smtp
    /\ quick_mode
    /\ accepted_any
    /\ probes # <<>>
    /\ v_result.status = "deliverable"

\* C21: a smtp_check_address call that opened a connection has, when it
\* returns, attempted QUIT and released the connection.
ProbeAlwaysQuitsAndCloses ==
    (p_pc = "returned" /\ conn # "none")
    => (\E k \in 1..Len(sent) : sent[k] = "QUIT") /\ conn = "closed"

\* C22: normalize_email applied to a text it returned gives that text back.
NormalizeIdempotent ==
    (text_n >= 1) => normalize_email_chars(text_out) = text_out

\* C23: `JOHN[AT]EXAMPLE[DOT]COM ` normalizes to `john@example.com`.
UpperCaseObfuscationUndone ==
    (text_in = TextObfuscatedUpper /\ text_n = 1)
    => text_out = << "j", "o", "h", "n", "@", "e", "x", "a", "m", "p", "l", "e", ".", "c", "o", "m" >>

\* C24: a resolve_mx call that began after a call for the same domain had
\* returned asks no name server and returns the tuple that call returned.
LaterResolveReturnsSameWithoutQuery ==
    \A c \in Callers :
        /\ (r_seen[c] # {}) => (~r_queried[c] /\ r_pc[c] \notin {"query", "write"})
        /\ (r_pc[c] = "done") => (\A t \in r_seen[c] : r_res[c] = t)

\* C25: every resolve_mx call that found the cache empty for its domain asks
\* the name servers itself, whatever the other callers have written since.
MissesAreNotDeduplicated ==
    /\ \A d \in Domains :
          dns_queries[d] + Cardinality({ c \in Callers : r_pc[c] = "query" /\ r_domain[c] = d })
              = misses[d]
    /\ \A c \in Callers : (r_pc[c] = "write") => r_queried[c]

\* C25 witness: two callers have both asked the name servers for one domain
\* and neither has written its answer yet.
TwoCallersQueriedSameDomain ==
    /\ r_pc[1] = "write"
    /\ r_pc[2] = "write"
    /\ r_domain[1] = r_domain[2]
    /\ dns_queries[r_domain[1]] = 2

\* C26: is_blog_page answers is_blog exactly when the score is 8 or more; a
\* page the exclusion rule catches gets (False, -10, [non_blog_detected]),
\* and any other page a score of 0 or more.
BlogExactlyFromEightExclusionFixed ==
    (page_pc = "classified") =>
        /\ classified.is_blog <=> (classified.score >= 8)
        /\ is_non_blog_page(page) =>
              classified = [is_blog |-> FALSE, score |-> -10,
                            indicators |-> << "non_blog_detected" >>]
        /\ ~is_non_blog_page(page) => classified.score >= 0

\* C26 witness: a documentation page under /blog/ was classified as excluded,
\* and so was not scored.
ExcludedPageWithBlogUrlClassified ==
    /\ page_pc = "classified"
    /\ page = {"url_strong", "doc"}
    /\ classified.score = -10

\* C27: after scrape_emails, what each url keeps is the first
\* max_emails_per_site of its extracted addresses in the order of rank score
\* descending, then alphabetical: never more than 3, and never an address
\* that ranks below one the url lost.
RetainedAreTheTopRanked ==
    (rank_pc = "returned") =>
        \A u \in Range(scrape_urls) :
            LET ranked == rank_emails_for_guestposting(extracted[u], u, context[u])
                top == { ranked[i].email :
                           i \in 1..Min(max_emails_per_site, Len(ranked)) }
                retained == { verified_emails[i].email :
                                i \in { j \in DOMAIN verified_emails :
                                          /\ verified_emails[j].url = u
                                          /\ verified_emails[j].email # NoEmail } }
            IN  /\ retained = top
                /\ Cardinality(retained) <= 3

ProbeAccepted(p) == smtp_check_address(p.conv).ok

ProbeTempfail(p) == smtp_check_address(p.conv).is_temp

AddressProbes == { k \in 1..Len(probes) : probes[k].rcpt = "address" }

CatchallProbes == { k \in 1..Len(probes) : probes[k].rcpt = "catchall_probe" }

\* The rows of the table for a verification no probe of which was answered
\* 550 or 551 while none accepted, with `caught` as what catch-all detection
\* found.
TableResult(caught) ==
    IF \E k \in AddressProbes : ProbeAccepted(probes[k])
    THEN IF caught
         THEN [quality |-> 75, status |-> "catchall_suspected"]
         ELSE [quality |-> IF quick_mode THEN 85 ELSE 90, status |-> "deliverable"]
    ELSE IF \/ \E k \in AddressProbes : ProbeTempfail(probes[k])
            \/ \E k \in AddressProbes : probes[k].mx \in GuardedHosts
    THEN [quality |-> 70, status |-> "temporary_fail_retry"]
    ELSE [quality |-> 55, status |-> "unverifiable_provider_neutral"]

\* A verification in SMTP mode has returned after probing, and not with a
\* 550 or 551 and no acceptance.
ProbedAndNotRejected ==
    /\ v_pc = "done"
    /\ enable_smtp
    /\ probes # <<>>
    /\ \/ \E k \in AddressProbes : ProbeAccepted(probes[k])
       \/ \A k \in 1..Len(probes) : ~HardRejected(probes[k])

\* C28, as stated: without acceptance and without 550/551 the result is
\* (70, temporary_fail_retry) if a probe reported tempfail or a probed MX host
\* is a guarded provider's, else (55, unverifiable_provider_neutral); with an
\* acceptance it is (75, catchall_suspected) if a catch-all probe was
\* accepted, else (85 quick / 90 thorough, deliverable).
ResultFollowsTableCatchallAccepted ==
    ProbedAndNotRejected =>
        v_result = TableResult(\E k \in CatchallProbes : ProbeAccepted(probes[k]))

\* C28, amended: the same, with (75, catchall_suspected) if a catch-all probe
\* was accepted by a reply that does not also report tempfail.
ResultFollowsTableCatchallAcceptedCleanly ==
    ProbedAndNotRejected =>
        v_result = TableResult(\E k \in CatchallProbes :
                                  ProbeAccepted(probes[k]) /\ ~ProbeTempfail(probes[k]))

\* C28 witness: in thorough mode the address was accepted, the catch-all
\* probe was accepted by a reply whose text reports a soft failure, and the
\* result is (90, deliverable).
CatchallAcceptedWithSoftFailureDeliverable ==
    /\ v_pc = "done"
    /\ enable_smtp
    /\ ~quick_mode
    /\ \E k \in AddressProbes : ProbeAccepted(probes[k])
    /\ \E k \in CatchallProbes : ProbeAccepted(probes[k]) /\ ProbeTempfail(probes[k])
    /\ v_result = [quality |-> 90, status |-> "deliverable"]

\* C29: a thorough verification that returned after a probe accepted the
\* address issued exactly one catch-all probe.
ThoroughAcceptanceIssuesOneCatchallProbe ==
    ( /\ v_pc = "done"
      /\ enable_smtp
      /\ ~quick_mode
      /\ \E k \in AddressProbes : ProbeAccepted(probes[k]) )
    => Cardinality(CatchallProbes) = 1

\* The preference of an MX host in the answer for the address's domain.
Preference(h) ==
    LET r == CHOOSE r \in dns(v_email.host).answers : r[2] = h
    IN  r[1]

\* C30: of the probes of the address in one verification, each goes to one of
\* the 3 MX hosts of lowest preference, hosts follow each other by rising
\* preference, a host probed before is probed again only directly after a
\* tempfail of its own, never in quick mode and at most 3 times in all, and
\* none follows a probe that accepted the address.
ProbeScheduleFollowsMxLoop ==
    (enable_smtp /\ dns(v_email.host).mx = "answer") =>
        \A l \in AddressProbes :
            /\ Cardinality({ r \in dns(v_email.host).answers :
                               r[1] < Preference(probes[l].mx) }) < 3
            /\ Cardinality({ k \in AddressProbes : probes[k].mx = probes[l].mx })
                  <= (IF quick_mode THEN 1 ELSE 3)
            /\ \A k \in AddressProbes :
                  k < l =>
                     /\ ~ProbeAccepted(probes[k])
                     /\ Preference(probes[k].mx) <= Preference(probes[l].mx)
                     /\ (probes[k].mx = probes[l].mx) =>
                           /\ probes[l - 1].mx = probes[l].mx
                           /\ ProbeTempfail(probes[l - 1])

\* C30 witness: a thorough verification at a domain with 4 MX hosts returned
\* after 3 probes of the first host, one of the second and one of the third.
ThreeOfFourHostsProbedWithRetries ==
    /\ v_pc = "done"
    /\ ~quick_mode
    /\ Len(mx_hosts) = 4
    /\ Len(probes) = 5
    /\ probes[1].mx = probes[3].mx
    /\ probes[4].mx # probes[5].mx
    /\ probes[5].mx = mx_hosts[3]

RcptReplyClassified(conv) ==
    /\ p_pc' = "returned"
    /\ p_result'.note = [kind |-> "rcpt", code |-> conv.code]
    /\ p_result'.ok <=> conv.code \in {250, 251}
    /\ p_result'.is_temp <=> (conv.code \in {421, 450, 451, 452} \/ conv.soft)

\* C32, as stated: every reply to RCPT TO is classified that way, and the
\* returned triple is never accepted and tempfail at once.
RcptReplyOneOfThree ==
    [][ \A conv \in RcptOutcomes :
           (smtp_rcpt(conv) /\ conv.stage = "rcpt")
           => /\ RcptReplyClassified(conv)
              /\ ~(p_result'.ok /\ p_result'.is_temp) ]_vars

\* C32, amended: every reply to RCPT TO is classified that way, the two
\* flags apart from each other: the triple is accepted and tempfail at once
\* exactly for a 250 or 251 whose text holds a soft-failure phrase.
RcptReplyTwoFlags ==
    [][ \A conv \in RcptOutcomes :
           (smtp_rcpt(conv) /\ conv.stage = "rcpt")
           => /\ RcptReplyClassified(conv)
              /\ (p_result'.ok /\ p_result'.is_temp)
                    <=> (conv.code \in {250, 251} /\ conv.soft) ]_vars

\* C32 witness: RCPT TO was answered 250 with a soft-failure phrase, and the
\* call returned accepted and tempfail together.
AcceptedAndTempfailReturned ==
    /\ p_pc = "returned"
    /\ p_result = [ok |-> TRUE, note |-> [kind |-> "rcpt", code |-> 250], is_temp |-> TRUE]
    /\ sent[Len(sent)] = "QUIT"

TerminalRunIsQuiet ==
    [][ (status \in Terminal /\ status' \in Terminal)
        => /\ processed_items' = processed_items
           /\ task' = task
           /\ item' = item ]_vars

\* C35: in every reachable state of a run the counters satisfy
\* 0 <= processed_items <= total_items and 0 <= progress <= 100, in all three
\* stages, the verify stage counting distinct addresses included.
CountersWithinTotal ==
    /\ 0 <= counters.processed_items
    /\ counters.processed_items <= counters.total_items
    /\ 0 <= counters.progress
    /\ counters.progress <= 100

\* C36: across all runs of the one manager, the number of items holding a slot
\* of the blog stage never exceeds the stage's concurrency limit, also after a
\* force-stop has discarded the shared semaphores.
SlotHoldersWithinConcurrency ==
    Cardinality(blog_slot_holders) <= blog_concurrency

\* C37: the checkpoint key is injective on hosts: two targets whose hosts
\* differ once lowercased and stripped of one leading "www." label never get
\* the same key.
CheckpointKeyInjective ==
    (key_pc # "idle" /\ without_www_label(websites[1]) # without_www_label(websites[2]))
        => domain_keys[1] # domain_keys[2]

\* C38: a progress websocket registered for a process id stays registered
\* until that same connection disconnects or a send on it fails; the
\* disconnect of an earlier connection never removes a later one.
RegisteredUntilOwnDisconnect ==
    \A c \in Connections :
        socket_state[c] \in {"open", "broken"} => websocket_connections = c

\* C39: start_pipeline called for a process id whose run is running changes
\* nothing of the run (state, counters, results, position in its stages) and
\* emits only the error event "Process already running".
SecondStartChangesNothing ==
    [][ (second_calls' # second_calls)
        => /\ status = "running"
           /\ events' = events \cup {AlreadyRunning}
           /\ UNCHANGED << status, steps, step_index, current_step, pc, current_data,
                           task, item, batch_start, todo, all_results, results_chunk,
                           verified_results, results, persisted, data_json,
                           processed_items, pool_set, requested_steps, error >> ]_vars

\* C39 witness: a second call was made during a run, which then went on and
\* completed with every target processed.
SecondStartMadeDuringRun ==
    /\ second_calls > 0
    /\ AlreadyRunning \in events
    /\ <<"started", "", 0>> \in events
    /\ status = "completed"
    /\ processed_items = NItems

\* C40: every started run eventually leaves `running`: with every per-item
\* call returning or timing out and every commit attempt returning, the run
\* reaches completed, failed, timeout, stopped or force_stopped, whatever
\* targets fail, batches time out and checkpoint chunks are dropped.
RunningLeadsToTerminal ==
    (status = "running") ~> (status \in Terminal)

\* C40 witness: a run has completed in which a target failed, a batch timed
\* out and the checkpoint of a result was dropped.
CompletedDespiteFailures ==
    /\ status = "completed"
    /\ \E b \in Items : <<"batch_timeout", "blog_check", b>> \in events
    /\ \E i \in Items : item[i].blog_check.present /\ item[i].blog_check.error # ""
    /\ \E i \in Range(results["blog_check"]) : <<"blog_check", i>> \notin persisted

====
